---- MODULE Spec2Model ----
(***************************************************************************)
(* Model of the assessment HTTP handlers of the eye-phone assessment app:  *)
(*   src/app/api/assess-eyes-batch/route.ts  (OPTIONS, POST, Gemini)       *)
(*   src/app/api/assess-eyes/route.ts        (OPTIONS, POST, OpenAI)       *)
(*                                                                         *)
(* Text is a sequence of tokens (a token is a short piece of the string),  *)
(* so split, trim, includes and startsWith are computed on the sequence.   *)
(* An optional value is a sequence of length 0 (absent) or 1 (present).    *)
(***************************************************************************)
EXTENDS Integers, Sequences, FiniteSets, TLC

\* the route handlers
VARIABLES env, req, pc, resp, modelCalls, bodyRead, sent, outcome

\* the client service (src/lib/assessment-service.tsx)
VARIABLES request, svcPc, fetchCalls, fetched, errorMessage, adjustedConfidence,
          settled, validation

\* the PhotoUpload component (src/components/photo-upload.tsx)
VARIABLES selectedImages, isCameraActive, stream, cameraError, mounted, invocations,
          streamCount, liveStreams, timers, pendingBlobs, handedOff

\* the main page (EyePhoneAssessment); pageError is its state "error"
VARIABLES assessmentState, uploadedImages, assessmentResult, pageError

routeVars == <<env, req, pc, resp, modelCalls, bodyRead, sent, outcome>>

serviceVars ==
    <<request, svcPc, fetchCalls, fetched, errorMessage, adjustedConfidence, settled,
      validation>>

uploadVars ==
    <<selectedImages, isCameraActive, stream, cameraError, mounted, invocations,
      streamCount, liveStreams, timers, pendingBlobs, handedOff>>

pageVars == <<assessmentState, uploadedImages, assessmentResult, pageError>>

vars == <<routeVars, serviceVars, uploadVars, pageVars>>

\* ------------------------------------------------------------------ bounds
MaxImages == 7
MaxEnvLen == 3

MaxFiles == 11

MaxSelected == 2

MaxStarts == 2

\* --------------------------------------------------------- text primitives
None == <<>>

Some(v) == <<v>>

IsSome(o) == Len(o) > 0

\* first index of token c in s, 0 when there is none
IndexOf(s, c) ==
    IF \E i \in 1..Len(s) : s[i] = c
    THEN CHOOSE i \in 1..Len(s) : s[i] = c /\ \A j \in 1..(i - 1) : s[j] # c
    ELSE 0

\* last index of token c in s, 0 when there is none
LastIndexOf(s, c) ==
    IF \E i \in 1..Len(s) : s[i] = c
    THEN CHOOSE i \in 1..Len(s) : s[i] = c /\ \A j \in (i + 1)..Len(s) : s[j] # c
    ELSE 0

RECURSIVE Split(_, _)
\* String.prototype.split(sep): the pieces between the separators, in order
Split(s, sep) ==
    LET i == IndexOf(s, sep)
    IN  IF i = 0 THEN <<s>>
        ELSE <<SubSeq(s, 1, i - 1)>> \o Split(SubSeq(s, i + 1, Len(s)), sep)

RECURSIVE Trim(_)
\* String.prototype.trim(): leading and trailing blanks removed
Trim(s) ==
    IF Len(s) = 0 THEN s
    ELSE IF s[1] = " " THEN Trim(Tail(s))
    ELSE IF s[Len(s)] = " " THEN Trim(SubSeq(s, 1, Len(s) - 1))
    ELSE s

\* String.prototype.includes(needle): needle occurs as a contiguous run
Includes(s, needle) ==
    \E i \in 1..(Len(s) - Len(needle) + 1) :
        SubSeq(s, i, i + Len(needle) - 1) = needle

\* String.prototype.startsWith(prefix)
StartsWith(s, prefix) ==
    Len(s) >= Len(prefix) /\ SubSeq(s, 1, Len(prefix)) = prefix

LowerToken(t) ==
    CASE t = "Request" -> "request"
      [] t = "Size"    -> "size"
      [] t = "Too"     -> "too"
      [] t = "Large"   -> "large"
      [] t = "En"      -> "en"
      [] t = "Payload" -> "payload"
      [] OTHER         -> t

\* String.prototype.toLowerCase()
ToLowerCase(s) == [i \in 1..Len(s) |-> LowerToken(s[i])]

\* ---------------------------------------------------------------- CORS
\* process.env.NAME || dflt : an unset or empty variable takes the default
EnvOr(v, dflt) == IF IsSome(v) /\ Len(v[1]) > 0 THEN v[1] ELSE dflt

\* request.headers.get(name) || ""
HeaderOrEmpty(h) == IF IsSome(h) THEN h[1] ELSE <<>>

allowedOrigins(e) ==
    LET parts == Split(EnvOr(e.ALLOWED_ORIGIN, <<"*">>), ",")
    IN  [i \in 1..Len(parts) |-> Trim(parts[i])]

\* Array.prototype.find((allowed) => allowed === origin): None is undefined
FindOrigin(list, origin) ==
    IF \E i \in 1..Len(list) : list[i] = origin
    THEN Some(list[CHOOSE i \in 1..Len(list) :
                     list[i] = origin /\ \A j \in 1..(i - 1) : list[j] # origin])
    ELSE None

\* the Access-Control-Allow-Origin value of getCorsHeaders(request)
getCorsHeadersBroken(e, r) ==
    LET origin == HeaderOrEmpty(r.origin)
        list   == allowedOrigins(e)
    IN  IF \E i \in 1..Len(list) : list[i] = <<"*">> THEN <<"*">>
        ELSE IF Len(origin) > 0 THEN origin ELSE list[1]

getCorsHeaders(e, r) ==
    LET origin == HeaderOrEmpty(r.origin)
        list   == allowedOrigins(e)
        found  == FindOrigin(list, origin)
    IN  IF \E i \in 1..Len(list) : list[i] = <<"*">> THEN <<"*">>
        ELSE IF IsSome(found) /\ Len(found[1]) > 0 THEN found[1]
        ELSE list[1]

\* the header the single-image handlers set: process.env.ALLOWED_ORIGIN || "*"
singleCorsOrigin(e) == EnvOr(e.ALLOWED_ORIGIN, <<"*">>)

\* ------------------------------------------------------ AssessmentSchema
\* A JSON value: t is its type ("missing" is undefined), s a string value,
\* n a number, a string's length or an array's length.  confidence is kept
\* in thousandths, so that rounding to two decimals is a real operation.
Val(t, s, n) == [t |-> t, s |-> s, n |-> n]

Missing == Val("missing", "", 0)

Str(s, n) == Val("str", s, n)

Num(n) == Val("num", "", n)

Arr(n) == Val("arr", "", n)

Obj == Val("obj", "", 0)

\* one schema node: its zod kind, numeric range and enclosing object
Node(kind, lo, hi, parent) == [kind |-> kind, lo |-> lo, hi |-> hi, parent |-> parent]

RiskLevels == {"Low Risk", "Medium Risk", "High Risk"}

MinExplanation == 50

BaseSchema ==
    [ riskLevel            |-> Node("enum", 0, 0, ""),
      explanation          |-> Node("strmin", MinExplanation, 0, ""),
      confidence           |-> Node("num", 0, 1000, ""),
      detectedFeatures     |-> Node("arrdef", 0, 0, ""),
      recommendations      |-> Node("arrdef", 0, 0, ""),
      visualAidSuggestions |-> Node("arrdef", 0, 0, ""),
      detailedAnalysis     |-> Node("obj", 0, 0, ""),
      eyeAlignment         |-> Node("str", 0, 0, "detailedAnalysis"),
      pupilResponse        |-> Node("str", 0, 0, "detailedAnalysis"),
      cornealClarity       |-> Node("str", 0, 0, "detailedAnalysis"),
      squintingStrain      |-> Node("str", 0, 0, "detailedAnalysis"),
      overallEyeHealth     |-> Node("str", 0, 0, "detailedAnalysis") ]

MetricsSchema ==
    [ technicalMetrics       |-> Node("obj", 0, 0, ""),
      imageQuality           |-> Node("obj", 0, 0, "technicalMetrics"),
      resolution             |-> Node("str", 0, 0, "imageQuality"),
      sharpnessScore         |-> Node("num", 0, 100, "imageQuality"),
      contrastRatio          |-> Node("num", 0, 10, "imageQuality"),
      brightnessLevel        |-> Node("num", 0, 255, "imageQuality"),
      eyeGeometry            |-> Node("obj", 0, 0, "technicalMetrics"),
      pupilDiameterLeft      |-> Node("num", 0, 20, "eyeGeometry"),
      pupilDiameterRight     |-> Node("num", 0, 20, "eyeGeometry"),
      pupilAsymmetryRatio    |-> Node("num", 0, 2, "eyeGeometry"),
      eyeAlignmentAngle      |-> Node("num", -45, 45, "eyeGeometry"),
      interPupillaryDistance |-> Node("num", 0, 80, "eyeGeometry"),
      riskIndicators         |-> Node("obj", 0, 0, "technicalMetrics"),
      squintingProbability   |-> Node("num", 0, 100, "riskIndicators"),
      alignmentDeviation     |-> Node("num", 0, 100, "riskIndicators"),
      cornealReflexSymmetry  |-> Node("num", 0, 100, "riskIndicators"),
      focusAccuracy          |-> Node("num", 0, 100, "riskIndicators"),
      confidenceIntervals    |-> Node("obj", 0, 0, "technicalMetrics"),
      overallAssessment      |-> Node("obj", 0, 0, "confidenceIntervals"),
      overallLower           |-> Node("num", 0, 100, "overallAssessment"),
      overallUpper           |-> Node("num", 0, 100, "overallAssessment"),
      myopiaRisk             |-> Node("obj", 0, 0, "confidenceIntervals"),
      myopiaLower            |-> Node("num", 0, 100, "myopiaRisk"),
      myopiaUpper            |-> Node("num", 0, 100, "myopiaRisk") ]

ProgressionSchema ==
    [ progressionAnalysis |-> Node("objopt", 0, 0, ""),
      overallTrend        |-> Node("str", 0, 0, "progressionAnalysis"),
      imageComparison     |-> Node("str", 0, 0, "progressionAnalysis"),
      temporalChanges     |-> Node("arr", 0, 0, "progressionAnalysis") ]

\* the schema of the batch route, and the schema of the single-image route
BatchAssessmentSchema == BaseSchema @@ MetricsSchema @@ ProgressionSchema

SingleAssessmentSchema == BaseSchema @@ MetricsSchema

\* keys a model may add to its JSON that no schema names
ExtraKeys == {"error", "isMockResult"}

AllKeys == DOMAIN BatchAssessmentSchema \cup ExtraKeys

RECURSIVE Present(_, _, _)
\* the node at path p exists in o: every enclosing object is an object
Present(schema, o, p) ==
    \/ schema[p].parent = ""
    \/ /\ o[schema[p].parent].t = "obj"
       /\ Present(schema, o, schema[p].parent)

\* zod's check of one value against one node
NodeOKLax(node, v) ==
    CASE node.kind = "enum"   -> v.t = "str"
      [] node.kind = "strmin" -> v.t = "str"
      [] node.kind = "str"    -> v.t = "str"
      [] node.kind = "num"    -> v.t = "num"
      [] node.kind = "arrdef" -> v.t \in {"arr", "missing"}
      [] node.kind = "arr"    -> v.t = "arr"
      [] node.kind = "obj"    -> v.t = "obj"
      [] node.kind = "objopt" -> v.t \in {"obj", "missing"}

NodeOK(node, v) ==
    CASE node.kind = "enum"   -> v.t = "str" /\ v.s \in RiskLevels
      [] node.kind = "strmin" -> v.t = "str" /\ v.n >= node.lo
      [] node.kind = "str"    -> v.t = "str"
      [] node.kind = "num"    -> v.t = "num" /\ v.n >= node.lo /\ v.n <= node.hi
      [] node.kind = "arrdef" -> v.t \in {"arr", "missing"}
      [] node.kind = "arr"    -> v.t = "arr"
      [] node.kind = "obj"    -> v.t = "obj"
      [] node.kind = "objopt" -> v.t \in {"obj", "missing"}

\* schema.parse(o) does not throw
Valid(schema, o) ==
    \A p \in DOMAIN schema : Present(schema, o, p) => NodeOK(schema[p], o[p])

\* the value schema.parse(o) returns: unknown keys stripped, defaults filled
ParsedKeepExtras(schema, o) ==
    [p \in DOMAIN o |->
        IF p \in DOMAIN schema /\ schema[p].kind = "arrdef" /\ o[p].t = "missing"
        THEN Arr(0) ELSE o[p]]

Parsed(schema, o) ==
    [p \in DOMAIN schema |->
        IF schema[p].kind = "arrdef" /\ o[p].t = "missing" THEN Arr(0) ELSE o[p]]

\* Math.round(c * 100) / 100, on thousandths
RoundConfidence(n) == ((n + 5) \div 10) * 10

\* ------------------------------------------------- outputs of the models
ValidValue(node) ==
    CASE node.kind = "enum"   -> Str("Low Risk", 8)
      [] node.kind = "strmin" -> Str("text", MinExplanation)
      [] node.kind = "str"    -> Str("text", 4)
      [] node.kind = "num"    -> Num(node.hi)
      [] node.kind = "arrdef" -> Arr(1)
      [] node.kind = "arr"    -> Arr(1)
      [] node.kind = "obj"    -> Obj
      [] node.kind = "objopt" -> Obj

\* values a model may put at a node: valid ones, boundary ones, wrong ones
CandidateValues(node) ==
    CASE node.kind = "enum"   ->
            {Str(l, 8) : l \in RiskLevels} \cup {Str("Critical", 8), Missing, Num(1)}
      [] node.kind = "strmin" ->
            {Str("text", node.lo - 1), Str("text", node.lo), Missing}
      [] node.kind = "str"    -> {Str("text", 4), Missing, Num(1)}
      [] node.kind = "num"    ->
            {Num(node.lo - 1), Num(node.lo), Num(node.hi), Num(node.hi + 1),
             Missing, Str("text", 4)}
      [] node.kind = "arrdef" -> {Arr(1), Missing, Str("text", 4)}
      [] node.kind = "arr"    -> {Arr(1), Missing, Str("text", 4)}
      [] node.kind = "obj"    -> {Obj, Missing, Str("text", 4)}
      [] node.kind = "objopt" -> {Obj, Missing, Str("text", 4)}

RECURSIVE Under(_, _)
\* node p lies inside the object at path a
Under(p, a) ==
    /\ BatchAssessmentSchema[p].parent # ""
    /\ \/ BatchAssessmentSchema[p].parent = a
       \/ Under(BatchAssessmentSchema[p].parent, a)

\* an output in which every node is valid and no extra key is set
GoodOutput ==
    [p \in AllKeys |->
        IF p \in ExtraKeys THEN Missing ELSE ValidValue(BatchAssessmentSchema[p])]

\* GoodOutput with the value at path p replaced by v; what lay inside a
\* node that is no longer an object is gone with it
Perturbed(p, v) ==
    [q \in AllKeys |->
        IF q = p THEN v
        ELSE IF q \notin ExtraKeys /\ p \notin ExtraKeys /\ v.t # "obj" /\ Under(q, p)
             THEN Missing
        ELSE GoodOutput[q]]

\* a description of one model output: the path that deviates and its value
OutputDescs ==
    UNION {{[path |-> p, val |-> v] : v \in CandidateValues(BatchAssessmentSchema[p])} :
             p \in DOMAIN BatchAssessmentSchema}
    \cup {[path |-> "confidence", val |-> Num(876)],
          [path |-> "confidence", val |-> Num(994)]}
    \cup {[path |-> k, val |-> Str("text", 4)] : k \in ExtraKeys}

\* the JSON value a description stands for
Output(d) == Perturbed(d.path, d.val)

\* ------------------------------------------------------------- requests
MaxPayloadBytes == 100 * 1024 * 1024

MaxBatchImages == 6

\* the i-th distinct base64 payload
Payload(i) == "b64_" \o ToString(i)

\* an element of the images array: a string (token sequence) or not a string
ImageStr(s) == [t |-> "str", s |-> s]

NotAString == [t |-> "num", s |-> <<>>]

NoImage == [t |-> "missing", s |-> <<>>]

DataUrl(i) == ImageStr(<<"data:", "image/jpeg;base64", ",", Payload(i)>>)

Plain(i) == ImageStr(<<Payload(i)>>)

\* arrays of n images: all plain base64, all data URLs, or alternating
ImageArray(n, pattern) ==
    [i \in 1..n |->
        CASE pattern = "plain"   -> Plain(i)
          [] pattern = "dataurl" -> DataUrl(i)
          [] pattern = "mixed"   -> IF i % 2 = 1 THEN DataUrl(i) ELSE Plain(i)]

ImageArrays ==
    {ImageArray(n, pt) : n \in 0..MaxImages, pt \in {"plain", "dataurl", "mixed"}}
    \cup {<<Plain(1), NotAString>>, <<ImageStr(<<"data:", "image/jpeg">>)>>,
          <<Plain(1), ImageStr(<<"data:", "text/plain", ",", Payload(2), ",", Payload(3)>>)>>}

\* body.images: undefined, a value that is not an array, or an array
ImagesValues ==
    {[t |-> "missing", items |-> <<>>], [t |-> "str", items |-> <<>>]}
    \cup {[t |-> "arr", items |-> a] : a \in ImageArrays}

NoImages == [t |-> "missing", items |-> <<>>]

\* a request body: text that does not parse, JSON null, a JSON object, or
\* multipart form data
Body(kind, images, image) == [kind |-> kind, images |-> images, image |-> image]

Request(endpoint, method, origin, contentType, contentLength, bodySize, body) ==
    [endpoint |-> endpoint, method |-> method, origin |-> origin,
     contentType |-> contentType, contentLength |-> contentLength,
     bodySize |-> bodySize, body |-> body]

NoRequest ==
    Request("none", "none", None, <<>>, None, 0, Body("none", NoImages, NoImage))

\* the body sizes tried, and the Content-Length header a client sends with
\* them: the exact size, or no header at all (chunked transfer encoding)
BodySizes == {1024, MaxPayloadBytes, MaxPayloadBytes + 1}

ContentLengths(size) == {None, Some(<<size>>)}

\* Number.parseInt of a Content-Length header (a header holds one number)
ParseInt(h) == h[1]

\* ------------------------------------------------------------ responses
\* a JSON response body; a key that is not sent is None
EmptyBody ==
    [error |-> None, isMockResult |-> None, assessment |-> None,
     details |-> None, technicalDetails |-> None, suggestion |-> FALSE,
     imagesAnalyzed |-> None, processingTimeMs |-> FALSE, echo |-> None]

ErrorBody(message) == [EmptyBody EXCEPT !.error = Some(message)]

MockErrorBody(message) ==
    [EmptyBody EXCEPT !.error = Some(message), !.isMockResult = Some(TRUE)]

\* NextResponse.json(body, {status, headers}); fullCors tells whether the
\* Allow-Methods, Allow-Headers and Max-Age headers are set as well
Response(status, body, acao, fullCors) ==
    [status |-> status, hasBody |-> TRUE, body |-> body,
     acao |-> acao, fullCors |-> fullCors]

NoResponse ==
    [status |-> 0, hasBody |-> FALSE, body |-> EmptyBody,
     acao |-> None, fullCors |-> FALSE]

\* a thrown value: an Error with a message, a thrown string (kept in
\* message), or some other object that is no Error
Thrown(kind, message) == [kind |-> kind, message |-> message]

NoThrown == Thrown("none", <<>>)

SyntaxErrorJSON == Thrown("Error", <<"Unexpected", " ", "token", " ", "in", " ", "JSON">>)

TypeErrorNull == Thrown("Error", <<"Cannot", " ", "read", " ", "properties", " ", "of", " ", "null">>)

TypeErrorNotFunction == Thrown("Error", <<"is", " ", "not", " ", "a", " ", "function">>)

NoJsonFound ==
    Thrown("Error", <<"No", " ", "valid", " ", "JSON", " ", "found", " ", "in", " ",
                      "Gemini", " ", "response">>)

ZodError == Thrown("Error", <<"[", "{", "code", ":", "invalid", "}", "]">>)

\* what the SDKs throw: messages of the provider's HTTP errors, an Error
\* without a message, a thrown string, a thrown object
SdkErrors ==
    { Thrown("Error", <<"[400]", " ", "API", " ", "key", " ", "not", " ", "valid">>),
      Thrown("Error", <<"authentication", " ", "failed">>),
      Thrown("Error", <<"[429]", " ", "quota", " ", "exceeded">>),
      Thrown("Error", <<"billing", " ", "not", " ", "enabled">>),
      Thrown("Error", <<"413", " ", "Request", " ", "En", "tity", " ", "Too", " ", "Large">>),
      Thrown("Error", <<"Request", " ", "En", "tity", " ", "Too", " ", "Large">>),
      Thrown("Error", <<"request", " ", "en", "tity", " ", "too", " ", "large">>),
      Thrown("Error", <<"payload", " ", "limit">>),
      Thrown("Error", <<"Request", " ", "Size", " ", "exceeded">>),
      Thrown("Error", <<"quota", " ", "for", " ", "API", " ", "key">>),
      Thrown("Error", <<"fetch", " ", "failed">>),
      Thrown("Error", <<>>),
      Thrown("string", <<"quota", " ", "exceeded">>),
      Thrown("object", <<>>) }

\* ---------------------------------------------- batch route: POST, sync part
\* the base64 the handler sends for one image string: the text after the
\* first comma of a data URL (undefined when there is no comma), else the
\* string itself
StripDataUrlKept(s) == Some(s)

StripDataUrl(s) ==
    IF StartsWith(s, <<"data:">>)
    THEN LET parts == Split(s, ",")
         IN  IF Len(parts) >= 2 THEN Some(parts[2]) ELSE None
    ELSE Some(s)

\* contentParts: the prompt, then one inlineData part per image
ContentParts(items) ==
    <<[part |-> "prompt", data |-> None]>>
    \o [i \in 1..Len(items) |-> [part |-> "inlineData", data |-> StripDataUrl(items[i].s)]]

\* a JavaScript value used as a condition: unset and "" are falsy
Falsy(v) == ~IsSome(v) \/ Len(v[1]) = 0

\* contentLength && Number.parseInt(contentLength) > 100 * 1024 * 1024
PayloadTooLarge(r) ==
    ~Falsy(r.contentLength) /\ ParseInt(r.contentLength[1]) > MaxPayloadBytes

\* images.length === 0 || images.length > 6
CountRejectedLoose(items) == Len(items) = 0 \/ Len(items) > MaxBatchImages + 1

CountRejected(items) == Len(items) = 0 \/ Len(items) > MaxBatchImages

\* the outer catch of the batch handler (lines 364-399)
BatchOuterCatchQuotaFirst(e, r, err) ==
    LET m == err.message
        picked ==
            IF err.kind # "Error"
            THEN [msg |-> <<"AI service temporarily unavailable">>, status |-> 500]
            ELSE IF Includes(m, <<"quota">>) \/ Includes(m, <<"billing">>)
            THEN [msg |-> <<"API quota exceeded or billing issue">>, status |-> 500]
            ELSE IF Includes(m, <<"API", " ", "key">>) \/ Includes(m, <<"authentication">>)
            THEN [msg |-> <<"Google API key not configured or invalid">>, status |-> 500]
            ELSE IF Includes(m, <<"too", " ", "large">>) \/ Includes(m, <<"413">>)
            THEN [msg |-> <<"Request payload too large. Gemini 1.5 Pro supports up to 100MB of images.">>,
                  status |-> 413]
            ELSE IF Includes(m, <<"JSON">>)
            THEN [msg |-> <<"Failed to parse AI response. Please try again.">>, status |-> 500]
            ELSE [msg |-> <<"Error: ">> \o m, status |-> 500]
    IN  Response(picked.status,
                 [MockErrorBody(picked.msg) EXCEPT !.processingTimeMs = TRUE],
                 Some(getCorsHeaders(e, r)), TRUE)

BatchOuterCatch(e, r, err) ==
    LET m == err.message
        picked ==
            IF err.kind # "Error"
            THEN [msg |-> <<"AI service temporarily unavailable">>, status |-> 500]
            ELSE IF Includes(m, <<"API", " ", "key">>) \/ Includes(m, <<"authentication">>)
            THEN [msg |-> <<"Google API key not configured or invalid">>, status |-> 500]
            ELSE IF Includes(m, <<"quota">>) \/ Includes(m, <<"billing">>)
            THEN [msg |-> <<"API quota exceeded or billing issue">>, status |-> 500]
            ELSE IF Includes(m, <<"too", " ", "large">>) \/ Includes(m, <<"413">>)
            THEN [msg |-> <<"Request payload too large. Gemini 1.5 Pro supports up to 100MB of images.">>,
                  status |-> 413]
            ELSE IF Includes(m, <<"JSON">>)
            THEN [msg |-> <<"Failed to parse AI response. Please try again.">>, status |-> 500]
            ELSE [msg |-> <<"Error: ">> \o m, status |-> 500]
    IN  Response(picked.status,
                 [MockErrorBody(picked.msg) EXCEPT !.processingTimeMs = TRUE],
                 Some(getCorsHeaders(e, r)), TRUE)

\* the result of running a handler up to its first await of the model:
\* either a response, or the arguments of the call it issues; read tells
\* how the body was read: "none", "json" (request.json()) or "formData"
Answered(response, read) ==
    [done |-> TRUE, resp |-> response, bodyRead |-> read, sent |-> <<>>]

Calling(parts, read) ==
    [done |-> FALSE, resp |-> NoResponse, bodyRead |-> read, sent |-> parts]

\* POST of the batch route, lines 89-256
BatchPOSTBegin(e, r) ==
    LET cors == Some(getCorsHeaders(e, r))
        images == r.body.images
    IN  IF PayloadTooLarge(r)
        THEN Answered(Response(413,
                 ErrorBody(<<"Request payload too large. Gemini 1.5 Pro supports up to 100MB of images.">>),
                 cors, TRUE), "none")
        ELSE IF r.body.kind \notin {"null", "object"}
        THEN Answered(BatchOuterCatch(e, r, SyntaxErrorJSON), "json")
        ELSE IF r.body.kind = "null"
        THEN Answered(BatchOuterCatch(e, r, TypeErrorNull), "json")
        ELSE IF images.t # "arr"
        THEN Answered(Response(400, ErrorBody(<<"No images array provided">>), cors, TRUE), "json")
        ELSE IF CountRejected(images.items)
        THEN Answered(Response(400, ErrorBody(<<"Please provide between 1 and 6 images">>), cors, TRUE), "json")
        ELSE IF Falsy(e.GOOGLE_GENERATIVE_AI_API_KEY)
        THEN Answered(Response(500, MockErrorBody(<<"Google API key not configured">>), cors, TRUE), "json")
        ELSE IF \E i \in 1..Len(images.items) : images.items[i].t # "str"
        THEN Answered(BatchOuterCatch(e, r, TypeErrorNotFunction), "json")
        ELSE Calling(ContentParts(images.items), "json")

\* ------------------------------------------ batch route: after the await
\* what the awaited model call produced: it threw err; or it returned and
\* response.text() threw err; or response.text() returned text, in which
\* the token "J" stands for the members described by desc
\* quotes tells whether JSON.parse of the runtime quotes the source text in
\* the message of its SyntaxError, which the language leaves to the engine
Outcome(kind, err, text, desc) ==
    [kind |-> kind, err |-> err, text |-> text, desc |-> desc, quotes |-> FALSE]

GoodDesc == [path |-> "confidence", val |-> Num(1000)]

\* a valid output, and two that the schema refuses
FewDescs == {GoodDesc, [path |-> "riskLevel", val |-> Str("Critical", 8)],
             [path |-> "technicalMetrics", val |-> Missing]}

NoOutcome == Outcome("none", NoThrown, <<>>, GoodDesc)

\* texts the model answers with: bare JSON, JSON inside prose or fences,
\* prose only, an unbalanced or broken object, two objects, a JSON scalar,
\* an empty object
ObjectTexts == {<<"{", "J", "}">>, <<" ", "{", "J", "}", " ">>,
                <<"fence", "{", "J", "}", "fence">>}

OtherTexts == {<<"Sorry">>, <<"}", "Sorry", "{">>, <<"{", "Sorry", "}">>,
               <<"{", "J", "}", "and", "{", "J", "}">>, <<"42">>, <<"{", "}">>,
               <<"Sure:", "{", "}">>}

\* broken objects in which the model writes words that the outer catch
\* looks for
KeywordTexts == {<<"{", "quota", "}">>, <<"{", "too", " ", "large", "}">>,
                 <<"{", "API", " ", "key", "}">>}

\* the SyntaxError of JSON.parse(text): "Unexpected token ... in JSON at
\* position n", or "Unexpected token ..., "<text>" is not valid JSON"
JsonSyntaxError(text, quotes) ==
    IF quotes
    THEN Thrown("Error", <<"Unexpected", " ", "token", ",", " ">> \o text
                         \o <<" ", "is", " ", "not", " ", "valid", " ", "JSON">>)
    ELSE SyntaxErrorJSON

\* the value of a JSON text: ok is FALSE when JSON.parse throws
JsonValue(ok, isObject, members) == [ok |-> ok, isObject |-> isObject, members |-> members]

JSONParse(text) ==
    LET t == Trim(text)
    IN  CASE t = <<"{", "J", "}">> -> JsonValue(TRUE, TRUE, TRUE)
          [] t = <<"{", "}">>      -> JsonValue(TRUE, TRUE, FALSE)
          [] t = <<"42">>          -> JsonValue(TRUE, FALSE, FALSE)
          [] OTHER                 -> JsonValue(FALSE, FALSE, FALSE)

\* text.match(/\{[\s\S]*\}/): from the first "{" to the last "}" after it
MatchBraces(text) ==
    LET i == IndexOf(text, "{")
        j == LastIndexOf(text, "}")
    IN  IF i > 0 /\ j > i THEN Some(SubSeq(text, i, j)) ELSE None

\* lines 331-343: the parsed assessmentData, or the error thrown
ExtractJson(text) ==
    LET whole == JSONParse(text)
        span  == MatchBraces(text)
    IN  IF whole.ok THEN [thrown |-> NoThrown, value |-> whole]
        ELSE IF ~IsSome(span) THEN [thrown |-> NoJsonFound, value |-> whole]
        ELSE IF JSONParse(span[1]).ok THEN [thrown |-> NoThrown, value |-> JSONParse(span[1])]
        ELSE [thrown |-> SyntaxErrorJSON, value |-> whole]

EmptyObject == [q \in AllKeys |-> Missing]

\* the object a JSON value denotes
ObjectOf(value, desc) == IF value.members THEN Output(desc) ELSE EmptyObject

is413ErrorCaseSensitive(m) ==
    \/ Includes(m, <<"Request", " ", "En">>)
    \/ Includes(m, <<"413">>)
    \/ Includes(m, <<"too", " ", "large">>)
    \/ Includes(m, <<"en", "tity", " ", "too", " ", "large">>)
    \/ Includes(m, <<"payload">>)
    \/ Includes(m, <<"request", " ", "size">>)

\* lines 283-289
is413Error(m) ==
    \/ Includes(m, <<"Request", " ", "En">>)
    \/ Includes(m, <<"413">>)
    \/ Includes(m, <<"too", " ", "large">>)
    \/ Includes(m, <<"en", "tity", " ", "too", " ", "large">>)
    \/ Includes(m, <<"payload">>)
    \/ Includes(ToLowerCase(m), <<"request", " ", "size">>)

\* lines 270-277: the message taken from what generateContent threw
ExtractedMessage(err) ==
    IF err.kind = "Error" /\ Len(err.message) > 0 THEN err.message
    ELSE IF err.kind = "Error" THEN <<"Error">>
    ELSE IF err.kind = "string" /\ Len(err.message) > 0 THEN err.message
    ELSE IF err.kind = "string" THEN <<>>
    ELSE <<"[object Object]">>

\* String.prototype.substring(0, n)
Substring(s, n) == SubSeq(s, 1, IF Len(s) < n THEN Len(s) ELSE n)

DetailsLimit == 300

\* the inner catch around generateContent, lines 257-324
GeminiCatchNoHeaders(e, r, err) ==
    LET m == ExtractedMessage(err)
        cors == None
    IN  IF is413Error(m)
        THEN Response(413,
                 [MockErrorBody(<<"Images too large for batch processing">>)
                    EXCEPT !.details = Some(<<"The combined size of your images exceeds the API limit (100MB).">>),
                           !.suggestion = TRUE,
                           !.technicalDetails = Some(m),
                           !.processingTimeMs = TRUE],
                 cors, FALSE)
        ELSE Response(500,
                 [MockErrorBody(<<"Gemini API error occurred">>)
                    EXCEPT !.details = Some(Substring(m, DetailsLimit)),
                           !.processingTimeMs = TRUE],
                 cors, FALSE)

GeminiCatch(e, r, err) ==
    LET m == ExtractedMessage(err)
        cors == Some(getCorsHeaders(e, r))
    IN  IF is413Error(m)
        THEN Response(413,
                 [MockErrorBody(<<"Images too large for batch processing">>)
                    EXCEPT !.details = Some(<<"The combined size of your images exceeds the API limit (100MB).">>),
                           !.suggestion = TRUE,
                           !.technicalDetails = Some(m),
                           !.processingTimeMs = TRUE],
                 cors, TRUE)
        ELSE Response(500,
                 [MockErrorBody(<<"Gemini API error occurred">>)
                    EXCEPT !.details = Some(Substring(m, DetailsLimit)),
                           !.processingTimeMs = TRUE],
                 cors, TRUE)

\* the success body: {...validated, confidence: rounded, isMockResult: false, ...}
Spread(validated) ==
    [validated EXCEPT !["confidence"] = Num(RoundConfidence(validated["confidence"].n))]

\* AssessmentSchema.parse(assessmentData) does not throw
SchemaAccepts(schema, value, desc) ==
    value.isObject /\ Valid(schema, ObjectOf(value, desc))

\* POST of the batch route from the return of generateContent, lines 254-399
BatchPOSTResumeRetry(e, r, out) ==
    IF out.kind = "throw"
    THEN Calling(ContentParts(r.body.images.items), "json")
    ELSE Answered(BatchOuterCatch(e, r, ZodError), "json")

BatchPOSTResume(e, r, out) ==
    LET extracted == ExtractJson(out.text)
        o == ObjectOf(extracted.value, out.desc)
        thrown == IF extracted.thrown = SyntaxErrorJSON
                  THEN JsonSyntaxError(MatchBraces(out.text)[1], out.quotes)
                  ELSE extracted.thrown
    IN  IF out.kind = "throw" THEN Answered(GeminiCatch(e, r, out.err), "json")
        ELSE IF out.kind = "textThrow" THEN Answered(BatchOuterCatch(e, r, out.err), "json")
        ELSE IF extracted.thrown.kind # "none"
        THEN Answered(BatchOuterCatch(e, r, thrown), "json")
        ELSE IF ~SchemaAccepts(BatchAssessmentSchema, extracted.value, out.desc)
        THEN Answered(BatchOuterCatch(e, r, ZodError), "json")
        ELSE Answered(Response(200,
                 [EmptyBody EXCEPT !.assessment = Some(Spread(Parsed(BatchAssessmentSchema, o))),
                                   !.isMockResult = Some(FALSE),
                                   !.imagesAnalyzed = Some(Len(r.body.images.items)),
                                   !.processingTimeMs = TRUE],
                 Some(getCorsHeaders(e, r)), TRUE), "json")

\* further errors of response.text(), with messages that several rules
\* of the outer catch match
TextErrors ==
    { Thrown("Error", <<"quota", " ", "413">>),
      Thrown("Error", <<"JSON", " ", "body", " ", "too", " ", "large">>),
      Thrown("Error", <<"billing", " ", "JSON">>),
      Thrown("Error", <<"Invalid", " ", "JSON", " ", "payload">>),
      Thrown("Error", <<"Candidate", " ", "was", " ", "blocked", " ", "due", " ", "to", " ", "SAFETY">>) }

\* an error of generateContent whose message is longer than the details
\* the handler returns
LongError == Thrown("Error", [i \in 1..(DetailsLimit + 1) |-> "x"])

GeminiOutcomes ==
    {Outcome("throw", x, <<>>, GoodDesc) : x \in SdkErrors \cup {LongError}}
    \cup {Outcome("textThrow", x, <<>>, GoodDesc) : x \in SdkErrors \cup TextErrors}
    \cup {Outcome("text", NoThrown, <<"{", "J", "}">>, d) : d \in OutputDescs}
    \cup {Outcome("text", NoThrown, t, d) : t \in ObjectTexts, d \in FewDescs}
    \cup {Outcome("text", NoThrown, t, GoodDesc) : t \in OtherTexts \cup KeywordTexts}
    \cup {[Outcome("text", NoThrown, t, GoodDesc) EXCEPT !.quotes = TRUE] :
             t \in OtherTexts \cup KeywordTexts}

\* ------------------------- alternative batch handler: route_Bilal.ts
\* the issues RequestSchema.parse(rawBody) finds (lines 10-30, 146), each
\* as the text zod puts into the message of the ZodError; the requests
\* of the model carry no age and no gender, which get their defaults
RequestSchemaIssues(body) ==
    LET images == body.images
        n == Len(images.items)
    IN  IF body.kind = "null"
        THEN <<<<"Expected", " ", "object,", " ", "received", " ", "null">>>>
        ELSE IF images.t = "missing" THEN <<<<"Required">>>>
        ELSE IF images.t # "arr"
        THEN <<<<"Expected", " ", "array,", " ", "received", " ", "string">>>>
        ELSE (IF \E i \in 1..n : images.items[i].t # "str"
              THEN <<<<"Expected", " ", "string,", " ", "received", " ", "number">>>>
              ELSE <<>>)
             \o (IF n < 1
                 THEN <<<<"Array", " ", "must", " ", "contain", " ", "at", " ", "least",
                          " ", "1", " ", "element(s)">>>>
                 ELSE <<>>)
             \o (IF n > MaxBatchImages
                 THEN <<<<"Array", " ", "must", " ", "contain", " ", "at", " ", "most",
                          " ", "6", " ", "element(s)">>>>
                 ELSE <<>>)

\* the message of a ZodError: the JSON text of its issues
RECURSIVE ZodMessageBody(_)
ZodMessageBody(issues) ==
    IF Len(issues) = 0 THEN <<>>
    ELSE <<"{", "message", ":">> \o Head(issues) \o <<"}">> \o ZodMessageBody(Tail(issues))

RequestZodError(issues) == Thrown("Error", <<"[">> \o ZodMessageBody(issues) \o <<"]">>)

\* the outer catch of the alternative handler (lines 278-307)
BilalOuterCatch(e, r, err) ==
    LET m == err.message
        picked ==
            IF err.kind # "Error"
            THEN [msg |-> <<"AI service temporarily unavailable">>, status |-> 500]
            ELSE IF Includes(m, <<"API", " ", "key">>) \/ Includes(m, <<"authentication">>)
            THEN [msg |-> <<"Google API key not configured or invalid">>, status |-> 500]
            ELSE IF Includes(m, <<"quota">>) \/ Includes(m, <<"billing">>)
            THEN [msg |-> <<"API quota exceeded or billing issue">>, status |-> 500]
            ELSE IF Includes(m, <<"too", " ", "large">>) \/ Includes(m, <<"413">>)
            THEN [msg |-> <<"Request payload too large. Gemini supports up to ~100MB of inputs.">>,
                  status |-> 413]
            ELSE IF Includes(m, <<"JSON">>)
            THEN [msg |-> <<"Failed to parse AI response. Please try again.">>, status |-> 500]
            ELSE [msg |-> <<"Error: ">> \o m, status |-> 500]
    IN  Response(picked.status,
                 [MockErrorBody(picked.msg) EXCEPT !.processingTimeMs = TRUE],
                 Some(getCorsHeaders(e, r)), TRUE)

\* parts: one inlineData part per image, then the text "Age is 8, Male"
BilalParts(items) ==
    [i \in 1..Len(items) |-> [part |-> "inlineData", data |-> StripDataUrl(items[i].s)]]
    \o <<[part |-> "text", data |-> Some(<<"Age is ", "8", ", ", "Male">>)]>>

\* POST of the alternative handler up to the await (lines 125-205)
BilalPOSTBegin(e, r) ==
    LET cors == Some(getCorsHeaders(e, r))
        issues == RequestSchemaIssues(r.body)
    IN  IF PayloadTooLarge(r)
        THEN Answered(Response(413,
                 ErrorBody(<<"Request payload too large. Gemini supports up to ~100MB for inputs.">>),
                 cors, TRUE), "none")
        ELSE IF Falsy(e.GOOGLE_GENERATIVE_AI_API_KEY)
        THEN Answered(Response(500, MockErrorBody(<<"Google API key not configured">>), cors, TRUE),
                      "none")
        ELSE IF r.body.kind \notin {"null", "object"}
        THEN Answered(BilalOuterCatch(e, r, SyntaxErrorJSON), "json")
        ELSE IF Len(issues) > 0
        THEN Answered(BilalOuterCatch(e, r, RequestZodError(issues)), "json")
        ELSE Calling(BilalParts(r.body.images.items), "json")

\* lines 212-218
BilalIs413Error(m) ==
    \/ Includes(m, <<"Request", " ", "En">>)
    \/ Includes(m, <<"413">>)
    \/ Includes(ToLowerCase(m), <<"too", " ", "large">>)
    \/ Includes(ToLowerCase(m), <<"en", "tity", " ", "too", " ", "large">>)
    \/ Includes(ToLowerCase(m), <<"payload">>)
    \/ Includes(ToLowerCase(m), <<"request", " ", "size">>)

\* the inner catch around generateContent (lines 206-244)
BilalGeminiCatch(e, r, err) ==
    LET m == ExtractedMessage(err)
        cors == Some(getCorsHeaders(e, r))
    IN  IF BilalIs413Error(m)
        THEN Response(413,
                 [MockErrorBody(<<"Images too large for batch processing">>)
                    EXCEPT !.details = Some(<<"The combined size of your images exceeds the API limit (~100MB). Compress images or upload fewer per request.">>),
                           !.suggestion = TRUE,
                           !.technicalDetails = Some(m),
                           !.processingTimeMs = TRUE],
                 cors, TRUE)
        ELSE Response(500,
                 [MockErrorBody(<<"Gemini API error occurred">>)
                    EXCEPT !.details = Some(Substring(m, DetailsLimit)),
                           !.processingTimeMs = TRUE],
                 cors, TRUE)

\* stripJsonFences (lines 117-123): the trimmed text, without its code
\* fence when it is fenced
stripJsonFences(s) ==
    LET text == Trim(s)
    IN  IF Len(text) > 2 /\ text[1] = "fence" /\ text[Len(text)] = "fence"
        THEN Trim(SubSeq(text, 2, Len(text) - 1))
        ELSE text

\* POST of the alternative handler from the return of generateContent
\* (lines 206-307)
BilalPOSTResume(e, r, out) ==
    LET extracted == ExtractJson(stripJsonFences(out.text))
        o == ObjectOf(extracted.value, out.desc)
    IN  IF out.kind = "throw" THEN Answered(BilalGeminiCatch(e, r, out.err), "json")
        ELSE IF extracted.thrown.kind # "none"
        THEN Answered(BilalOuterCatch(e, r, extracted.thrown), "json")
        ELSE IF ~SchemaAccepts(BatchAssessmentSchema, extracted.value, out.desc)
        THEN Answered(BilalOuterCatch(e, r, ZodError), "json")
        ELSE Answered(Response(200,
                 [EmptyBody EXCEPT !.assessment = Some(Spread(Parsed(BatchAssessmentSchema, o))),
                                   !.isMockResult = Some(FALSE),
                                   !.imagesAnalyzed = Some(Len(r.body.images.items)),
                                   !.processingTimeMs = TRUE,
                                   !.echo = Some([age |-> 8, gender |-> "Male"])],
                 Some(getCorsHeaders(e, r)), TRUE), "json")

\* result.text is "" when the model returned no text
BilalOutcomes ==
    {Outcome("throw", x, <<>>, GoodDesc) : x \in SdkErrors}
    \cup {Outcome("text", NoThrown, t, d) : t \in ObjectTexts, d \in FewDescs}
    \cup {Outcome("text", NoThrown, t, GoodDesc) : t \in OtherTexts \cup {<<>>}}

\* ----------------------------------------- single-image route: POST
\* a JavaScript value used as a condition, for body.image / formData.get
Truthy(img) == img.t \in {"file", "num"} \/ (img.t = "str" /\ Len(img.s) > 0)

\* contentType.includes("application/json")
IsJsonRequestAlways(r) == TRUE

IsJsonRequest(r) == Includes(r.contentType, <<"application/json">>)

\* the CORS header of every response of the single-image handlers
SingleResponse(e, status, body) == Response(status, body, Some(singleCorsOrigin(e)), FALSE)

\* the catch of the single-image handler, lines 399-423
SingleCatch(e, err) ==
    LET m == err.message
        msg == IF err.kind # "Error"
               THEN <<"AI service temporarily unavailable">>
               ELSE IF Includes(m, <<"API", " ", "key">>) \/ Includes(m, <<"authentication">>)
               THEN <<"OpenAI API key not configured or invalid">>
               ELSE IF Includes(m, <<"quota">>) \/ Includes(m, <<"billing">>)
               THEN <<"API quota exceeded or billing issue">>
               ELSE <<"AI service temporarily unavailable">>
    IN  SingleResponse(e, 500, MockErrorBody(msg))

\* the two message parts of the generateObject call: the prompt, the image
SingleParts(base64) ==
    <<[part |-> "prompt", data |-> None], [part |-> "image", data |-> base64]>>

\* lines 266-281, then the call
SingleAfterImageNoKeyCheck(e, base64, read) == Calling(SingleParts(base64), read)

SingleAfterImage(e, base64, read) ==
    IF Falsy(e.OPENAI_API_KEY)
    THEN Answered(SingleResponse(e, 500, MockErrorBody(<<"OpenAI API key not configured">>)), read)
    ELSE Calling(SingleParts(base64), read)

FormDataError ==
    Thrown("Error", <<"Failed", " ", "to", " ", "parse", " ", "body", " ", "as", " ", "FormData">>)

\* POST of the single-image route, lines 206-285
SinglePOSTBegin(e, r) ==
    LET image == r.body.image
        noImage == SingleResponse(e, 400, ErrorBody(<<"No image provided">>))
    IN  IF IsJsonRequest(r)
        THEN IF r.body.kind \notin {"null", "object"}
             THEN Answered(SingleCatch(e, SyntaxErrorJSON), "json")
             ELSE IF r.body.kind = "null"
             THEN Answered(SingleCatch(e, TypeErrorNull), "json")
             ELSE IF ~Truthy(image) THEN Answered(noImage, "json")
             ELSE IF image.t # "str"
             THEN Answered(SingleCatch(e, TypeErrorNotFunction), "json")
             ELSE SingleAfterImage(e, StripDataUrl(image.s), "json")
        ELSE IF r.body.kind # "form"
             THEN Answered(SingleCatch(e, FormDataError), "formData")
             ELSE IF ~Truthy(image) THEN Answered(noImage, "formData")
             ELSE IF image.t # "file"
             THEN Answered(SingleCatch(e, TypeErrorNotFunction), "formData")
             ELSE SingleAfterImage(e, Some(image.s), "formData")

\* generateObject({schema: AssessmentSchema, ...}): the SDK returns the
\* model's object when it matches the schema and throws otherwise
NoObjectGenerated ==
    Thrown("Error", <<"No", " ", "object", " ", "generated:", " ", "response", " ",
                      "did", " ", "not", " ", "match", " ", "schema">>)

\* POST of the single-image route from the return of generateObject
SinglePOSTResume(e, r, out) ==
    LET value == JsonValue(TRUE, TRUE, TRUE)
        o == Output(out.desc)
    IN  IF out.kind = "throw" THEN Answered(SingleCatch(e, out.err), bodyRead)
        ELSE IF ~SchemaAccepts(SingleAssessmentSchema, value, out.desc)
        THEN Answered(SingleCatch(e, NoObjectGenerated), bodyRead)
        ELSE Answered(SingleResponse(e, 200,
                 [EmptyBody EXCEPT !.assessment = Some(Spread(Parsed(SingleAssessmentSchema, o))),
                                   !.isMockResult = Some(FALSE)]), bodyRead)

OpenAIOutcomes ==
    {Outcome("throw", x, <<>>, GoodDesc) : x \in SdkErrors}
    \cup {Outcome("object", NoThrown, <<>>, d) : d \in OutputDescs}

\* ------------------------------------------------------------ OPTIONS
\* OPTIONS of the batch route, lines 82-87
BatchOPTIONSResponse(e, r) ==
    [status |-> 200, hasBody |-> FALSE, body |-> EmptyBody,
     acao |-> Some(getCorsHeaders(e, r)), fullCors |-> TRUE]

\* OPTIONS of the single-image route, lines 194-204
SingleOPTIONSResponse(e, r) ==
    [status |-> 200, hasBody |-> FALSE, body |-> EmptyBody,
     acao |-> Some(singleCorsOrigin(e)), fullCors |-> TRUE]

\* ------------------------------------------------- environment, inputs
Env(allowed, google, openai) ==
    [ALLOWED_ORIGIN |-> allowed, GOOGLE_GENERATIVE_AI_API_KEY |-> google,
     OPENAI_API_KEY |-> openai]

KeyValues == {None, Some(<<"key">>)}

Envs == {Env(a, g, o) : a \in {None, Some(<<"A", ",", " ", "B">>)},
                        g \in KeyValues, o \in KeyValues}

Origins == {None, Some(<<"B">>)}

BatchBodies ==
    {Body("malformed", NoImages, NoImage), Body("null", NoImages, NoImage)}
    \cup {Body("object", im, NoImage) : im \in ImagesValues}

ContentTypes ==
    {<<>>, <<"application/json">>, <<"application/json", ";", " ", "charset=utf-8">>,
     <<"multipart/form-data", ";", " ", "boundary=x">>, <<"text/plain">>}

FileImage == [t |-> "file", s |-> <<Payload(1)>>]

\* body.image of a JSON body: undefined, "", base64, a data URL, a data
\* URL without a comma, a number
JsonImages ==
    {NoImage, ImageStr(<<>>), Plain(1), DataUrl(1),
     ImageStr(<<"data:", "image/jpeg">>), NotAString}

\* formData.get("image"): null, a File, a text field, an empty text field
FormImages == {NoImage, FileImage, ImageStr(<<"text">>), ImageStr(<<>>)}

SingleBodies ==
    {Body("malformed", NoImages, NoImage), Body("null", NoImages, NoImage)}
    \cup {Body("object", NoImages, im) : im \in JsonImages}
    \cup {Body("form", NoImages, im) : im \in FormImages}

\* batch requests: every body with a small declared size, and every size,
\* declared or not, with a body of each kind the checks tell apart
SizedBodies ==
    {Body("malformed", NoImages, NoImage), Body("null", NoImages, NoImage),
     Body("object", NoImages, NoImage)}
    \cup {Body("object", [t |-> "arr", items |-> ImageArray(n, "plain")], NoImage) :
            n \in {0, 1, MaxImages}}

BatchRequests ==
    {Request("batch", "POST", o, <<"application/json">>, Some(<<1024>>), 1024, b) :
        o \in Origins, b \in BatchBodies}
    \cup UNION {{Request("batch", "POST", o, <<"application/json">>, cl, size, b) :
                    o \in Origins, b \in SizedBodies, cl \in ContentLengths(size)} :
                 size \in BodySizes}

SingleRequests ==
    {Request("single", "POST", o, ct, None, 1024, b) :
        o \in Origins, ct \in ContentTypes, b \in SingleBodies}

\* requests to the alternative handler: every body, and a declared size
\* over the limit
BilalRequests ==
    {Request("bilal", "POST", o, <<"application/json">>, Some(<<1024>>), 1024, b) :
        o \in Origins, b \in BatchBodies}
    \cup {Request("bilal", "POST", None, <<"application/json">>,
                  Some(<<MaxPayloadBytes + 1>>), MaxPayloadBytes + 1, b) : b \in SizedBodies}

OptionsRequests ==
    {Request(ep, "OPTIONS", o, <<>>, None, 0, Body("none", NoImages, NoImage)) :
        ep \in {"batch", "single"}, o \in Origins}

\* ------------------------------- client service: assessment-service.tsx
\* a File: its MIME type (text) and its size in bytes
File(type, size) == [type |-> type, size |-> size]

\* an AssessmentResult; confidence is in hundredths, absent fields are None
Result(riskLevel, explanation, callToAction, confidence, detectedFeatures) ==
    [riskLevel |-> riskLevel, explanation |-> explanation,
     callToAction |-> callToAction, confidence |-> confidence,
     detectedFeatures |-> detectedFeatures,
     isMockResult |-> None, errorMessage |-> None]

\* no result at all (a promise not fulfilled, a JSON null)
NoResult == Result("", "", None, None, <<>>)

MOCK_RESULTS ==
    << Result("Low Risk",
              "Eye alignment appears normal with no significant concerns detected. Both eyes show proper coordination and focus.",
              None, Some(92),
              <<"Normal eye alignment", "Symmetric pupil response", "Clear corneal reflex">>),
       Result("Low Risk",
              "Eyes appear healthy with good alignment. Minor asymmetry detected but within normal range for child development.",
              None, Some(88),
              <<"Good eye coordination", "Normal pupil size", "Healthy eye appearance">>),
       Result("Medium Risk",
              "Subtle eye alignment variations detected. One eye may turn slightly inward or outward, which could indicate early strabismus.",
              Some("Schedule a comprehensive eye exam to ensure optimal eye health and rule out any developing conditions."),
              Some(76),
              <<"Mild eye misalignment", "Possible strabismus indicators", "Asymmetric light reflex">>),
       Result("Medium Risk",
              "Possible signs of refractive error detected. Child may be experiencing difficulty focusing, which could affect vision development.",
              Some("Consider scheduling an eye exam to assess for nearsightedness, farsightedness, or astigmatism."),
              Some(71),
              <<"Potential refractive error", "Focusing difficulties", "Eye strain indicators">>),
       Result("High Risk",
              "Significant eye alignment concerns detected requiring immediate attention. Possible strabismus or amblyopia risk identified.",
              Some("Please schedule an appointment with an eye care professional as soon as possible for proper evaluation and treatment."),
              Some(89),
              <<"Significant misalignment", "Strabismus indicators", "Amblyopia risk factors">>),
       Result("High Risk",
              "Concerning asymmetry in pupil response and eye positioning detected. This may indicate neurological or muscular issues affecting eye movement.",
              Some("Immediate professional evaluation recommended. Contact an ophthalmologist or pediatric eye specialist."),
              Some(94),
              <<"Pupil asymmetry", "Eye movement concerns", "Neurological indicators">>) >>

\* array.filter(pred), for a predicate given as the set of kept elements
RECURSIVE Filter(_, _)
Filter(s, keep) ==
    IF Len(s) = 0 THEN <<>>
    ELSE (IF Head(s) \in keep THEN <<Head(s)>> ELSE <<>>) \o Filter(Tail(s), keep)

WithRisk(level) == {r \in {MOCK_RESULTS[i] : i \in 1..Len(MOCK_RESULTS)} : r.riskLevel = level}

\* Math.random() is k / RandomUnits for a k in 0..RandomUnits-1
RandomUnits == 10000

\* Math.floor(random * n): an index from 0
FloorRandom(k, n) == (k * n) \div RandomUnits

\* a confidence of c hundredths, in units of 1/100000
Fine(c) == c * 1000

\* (Math.random() - 0.5) * 0.1, in units of 1/100000
ConfidenceVariation(k) == k - (RandomUnits \div 2)

Max(a, b) == IF a >= b THEN a ELSE b

Min(a, b) == IF a <= b THEN a ELSE b

\* Math.round(x * 100) / 100, from units of 1/100000 to hundredths
RoundHundredths(x) == (x + 500) \div 1000

LargeImageBytes == 1000000

DefaultConfidence == 80

\* the pool performMockAssessment draws from (lines 172-187)
ResultPool(images) ==
    LET hasMultipleImages == Len(images) > 1
        hasLargeImages == \E i \in 1..Len(images) : images[i].size > LargeImageBytes
    IN  IF hasMultipleImages /\ hasLargeImages
        THEN Filter(MOCK_RESULTS, WithRisk("Low Risk"))
             \o Filter(MOCK_RESULTS, WithRisk("Low Risk"))
             \o Filter(MOCK_RESULTS, WithRisk("Medium Risk"))
             \o Filter(MOCK_RESULTS, WithRisk("High Risk"))
        ELSE MOCK_RESULTS

\* adjustedConfidence of line 195, in units of 1/100000
AdjustedConfidenceWide(selected, kVar) ==
    LET c == IF IsSome(selected.confidence) /\ selected.confidence[1] # 0
             THEN selected.confidence[1] ELSE DefaultConfidence
    IN  Max(60000, Min(99000, Fine(c) + 2 * ConfidenceVariation(kVar)))

AdjustedConfidence(selected, kVar) ==
    LET c == IF IsSome(selected.confidence) /\ selected.confidence[1] # 0
             THEN selected.confidence[1] ELSE DefaultConfidence
    IN  Max(60000, Min(99000, Fine(c) + ConfidenceVariation(kVar)))

NoImagesError ==
    Thrown("Error", <<"No", " ", "images", " ", "provided", " ", "for", " ", "assessment">>)

\* performMockAssessment after its delay (lines 166-201), for the two
\* random numbers it draws: what it throws, its adjustedConfidence and what
\* it returns
performMockAssessment(rq, kIndex, kVar) ==
    IF Len(rq.images) = 0
    THEN [thrown |-> NoImagesError, adjusted |-> 0, value |-> NoResult]
    ELSE LET resultPool == ResultPool(rq.images)
             selectedResult == resultPool[FloorRandom(kIndex, Len(resultPool)) + 1]
             adjusted == AdjustedConfidence(selectedResult, kVar)
         IN  [thrown |-> NoThrown, adjusted |-> adjusted,
              value |-> [selectedResult EXCEPT
                            !.confidence = Some(RoundHundredths(adjusted)),
                            !.isMockResult = Some(TRUE)]]

\* what fetch("/api/assess-eyes") settles to: it rejects with err, or it
\* resolves to a response whose body is unreadable as JSON, is JSON null,
\* or is an object with an optional error text
FetchOutcome(kind, err, ok, body, errorText) ==
    [kind |-> kind, err |-> err, ok |-> ok, body |-> body, errorText |-> errorText]

NoFetch == FetchOutcome("none", NoThrown, FALSE, "none", None)

ServerError == Thrown("Error", <<"Server", " ", "error">>)

\* what the server's JSON object is to the caller on the 2xx path: the
\* parsed value, returned as it is
ServerResult(out) ==
    IF out.body = "null" THEN NoResult
    ELSE [Result("Low Risk", "from the server", None, Some(90), <<"server">>)
            EXCEPT !.isMockResult = Some(FALSE)]

\* the catch of performEyeAssessment up to the await of the mock
\* (lines 120-136): the errorMessage it picks
ErrorMessageFor(err) ==
    LET m == err.message
    IN  IF err.kind # "Error" THEN "AI service temporarily unavailable"
        ELSE IF Includes(m, <<"API", " ", "key">>) \/ Includes(m, <<"authentication">>)
        THEN "OpenAI API key not configured or invalid"
        ELSE IF Includes(m, <<"quota">>) \/ Includes(m, <<"billing">>)
        THEN "API quota exceeded or billing issue"
        ELSE IF Includes(m, <<"network">>) \/ Includes(m, <<"fetch">>)
        THEN "Network connection issue"
        ELSE "AI service temporarily unavailable"

\* how a step of the service ends: the promise is fulfilled with value,
\* rejected with reason, or the call waits at its next await
Fulfilled(value) == [state |-> "fulfilled", value |-> value, reason |-> NoThrown]

Rejected(reason) == [state |-> "rejected", value |-> NoResult, reason |-> reason]

Pending == [state |-> "pending", value |-> NoResult, reason |-> NoThrown]

\* performEyeAssessment up to the await of fetch (lines 83-109)
performEyeAssessmentBegin(rq) ==
    IF Len(rq.images) = 0 THEN Rejected(NoImagesError) ELSE Pending

\* what lines 111-119 throw for a settled fetch (NoThrown: nothing)
FetchThrows(out) ==
    IF out.kind = "reject" THEN out.err
    ELSE IF out.body = "unreadable" THEN SyntaxErrorJSON
    ELSE IF out.ok THEN NoThrown
    ELSE IF out.body = "null" THEN TypeErrorNull
    ELSE IF Falsy(out.errorText) THEN ServerError
    ELSE Thrown("Error", out.errorText[1])

\* performEyeAssessment from the settled fetch to its return or to the
\* await of performMockAssessment (lines 111-136)
performEyeAssessmentNoCatch(out) ==
    LET thrown == FetchThrows(out)
    IN  IF thrown.kind = "none"
        THEN [settled |-> Fulfilled(ServerResult(out)), errorMessage |-> None]
        ELSE [settled |-> Rejected(thrown), errorMessage |-> None]

performEyeAssessmentAfterFetch(out) ==
    LET thrown == FetchThrows(out)
    IN  IF thrown.kind = "none"
        THEN [settled |-> Fulfilled(ServerResult(out)), errorMessage |-> None]
        ELSE [settled |-> Pending, errorMessage |-> Some(ErrorMessageFor(thrown))]

\* performEyeAssessment from the return of performMockAssessment
\* (lines 136-142); a throw of the mock leaves the async function
performEyeAssessmentFinish(mock, message) ==
    IF mock.thrown.kind # "none" THEN Rejected(mock.thrown)
    ELSE Fulfilled([mock.value EXCEPT !.isMockResult = Some(TRUE),
                                      !.errorMessage = message])

MinImageBytes == 1024

MaxImageBytes == 10 * 1024 * 1024

MaxImageCount == 10

\* one issue of validateImages: the rule broken and the image number
\* (0 for the two rules on the count)
Issue(rule, index) == [rule |-> rule, index |-> index]

\* the issues one image adds (lines 221-236), in the order of the checks
ImageIssuesNoMinimum(image, index) ==
    (IF ~StartsWith(image.type, <<"image/">>) THEN <<Issue("not a valid image", index)>> ELSE <<>>)
    \o (IF image.size > MaxImageBytes THEN <<Issue("too large", index)>> ELSE <<>>)

ImageIssues(image, index) ==
    (IF ~StartsWith(image.type, <<"image/">>) THEN <<Issue("not a valid image", index)>> ELSE <<>>)
    \o (IF image.size > MaxImageBytes THEN <<Issue("too large", index)>> ELSE <<>>)
    \o (IF image.size < MinImageBytes THEN <<Issue("too small or corrupted", index)>> ELSE <<>>)

RECURSIVE ForEachIssues(_, _)
ForEachIssues(images, from) ==
    IF from > Len(images) THEN <<>>
    ELSE ImageIssues(images[from], from) \o ForEachIssues(images, from + 1)

\* validateImages (lines 210-242)
validateImages(images) ==
    LET issues ==
            (IF Len(images) = 0 THEN <<Issue("At least one image is required", 0)>> ELSE <<>>)
            \o (IF Len(images) > MaxImageCount THEN <<Issue("Maximum 10 images allowed", 0)>> ELSE <<>>)
            \o ForEachIssues(images, 1)
    IN  [isValid |-> Len(issues) = 0, issues |-> issues]

\* ---------------------------------------------- client service: inputs
ImageTypes ==
    {<<"image/", "jpeg">>, <<"image/", "png">>, <<"text/", "plain">>,
     <<"application/", "image/">>, <<>>}

ImageSizes ==
    {0, MinImageBytes - 1, MinImageBytes, LargeImageBytes, LargeImageBytes + 1,
     MaxImageBytes, MaxImageBytes + 1}

GoodFile == File(<<"image/", "jpeg">>, 2 * MinImageBytes)

Files == {File(t, s) : t \in ImageTypes, s \in ImageSizes}

\* files that break one rule of validateImages, or two
OddFiles ==
    {File(<<"text/", "plain">>, 2 * MinImageBytes),
     File(<<"image/", "png">>, MaxImageBytes + 1),
     File(<<"image/", "png">>, MinImageBytes - 1),
     File(<<"application/", "image/">>, 0)}

LargeFile == File(<<"image/", "jpeg">>, LargeImageBytes + 1)

\* image lists of every length up to MaxFiles: all good, or with an odd
\* file at the front or at the end; every single file; pairs
FileLists ==
    {[i \in 1..n |-> GoodFile] : n \in 0..MaxFiles}
    \cup {[i \in 1..n |-> IF i = 1 THEN f ELSE GoodFile] : n \in 1..MaxFiles, f \in OddFiles}
    \cup {[i \in 1..n |-> IF i = n THEN f ELSE GoodFile] : n \in 1..MaxFiles, f \in OddFiles}
    \cup {<<f>> : f \in Files}
    \cup {<<f, g>> : f \in OddFiles \cup {LargeFile, GoodFile}, g \in OddFiles \cup {LargeFile}}

AssessmentRequest(images) == [images |-> images]

FetchErrors ==
    { Thrown("Error", <<"Failed", " ", "to", " ", "fetch">>),
      Thrown("Error", <<"Load", " ", "failed">>),
      Thrown("Error", <<"A", " ", "network", " ", "error", " ", "occurred">>),
      Thrown("Error", <<"The", " ", "user", " ", "aborted", " ", "a", " ", "request">>) }

\* the error texts of the server's non-2xx bodies
ServerErrorTexts ==
    { None, Some(<<>>),
      Some(<<"No", " ", "image", " ", "provided">>),
      Some(<<"OpenAI", " ", "API", " ", "key", " ", "not", " ", "configured">>),
      Some(<<"API", " ", "quota", " ", "exceeded", " ", "or", " ", "billing", " ", "issue">>),
      Some(<<"AI", " ", "service", " ", "temporarily", " ", "unavailable">>) }

FetchOutcomes ==
    {FetchOutcome("reject", x, FALSE, "none", None) : x \in FetchErrors}
    \cup {FetchOutcome("response", NoThrown, ok, b, None) :
            ok \in BOOLEAN, b \in {"unreadable", "null", "object"}}
    \cup {FetchOutcome("response", NoThrown, FALSE, "object", t) : t \in ServerErrorTexts}

IndexDraws == {(k * RandomUnits) \div 8 : k \in 0..7} \cup {RandomUnits - 1}

VariationDraws ==
    {0, 1, (RandomUnits \div 2) - 1, RandomUnits \div 2, (RandomUnits \div 2) + 1,
     RandomUnits - 1}

NoValidation == [isValid |-> FALSE, issues |-> <<Issue("not run", 0)>>]

\* the service is not in use
ServiceUnused ==
    /\ request = AssessmentRequest(<<>>)
    /\ svcPc = "idle"
    /\ fetchCalls = 0
    /\ fetched = NoFetch
    /\ errorMessage = None
    /\ adjustedConfidence = 0
    /\ settled = Pending
    /\ validation = NoValidation

\* --------------------------------- PhotoUpload: components/photo-upload.tsx
\* a File of the gallery or of the camera: its name and its MIME type
Photo(name, type) == [name |-> name, type |-> type]

CameraPhoto == Photo("camera-photo.jpg", <<"image/", "jpeg">>)

GalleryFiles ==
    {Photo("a.jpg", <<"image/", "jpeg">>), Photo("notes.pdf", <<"application/", "pdf">>)}

\* what the user picks in the file dialog: event.target.files
FileSelections ==
    {<<>>} \cup {<<f>> : f \in GalleryFiles}
    \cup {<<f, g>> : f \in GalleryFiles, g \in GalleryFiles}

\* files.filter((file) => file.type.startsWith("image/"))
RECURSIVE ImageFilesOf(_)
ImageFilesOf(files) ==
    IF Len(files) = 0 THEN <<>>
    ELSE (IF StartsWith(Head(files).type, <<"image/">>) THEN <<Head(files)>> ELSE <<>>)
         \o ImageFilesOf(Tail(files))

\* prev.filter((_, i) => i !== index), index counted from 0
RemoveAtFirst(prev, index) == Tail(prev)

RemoveAt(prev, index) ==
    [k \in 1..(Len(prev) - (IF index + 1 \in 1..Len(prev) THEN 1 ELSE 0)) |->
        IF k < index + 1 THEN prev[k] ELSE prev[k + 1]]

\* what getUserMedia rejects with: the name and message of an Error, or a
\* value that is no Error
MediaError(isError, name, message) == [isError |-> isError, name |-> name, message |-> message]

MediaErrors ==
    {MediaError(TRUE, "NotAllowedError", "Permission denied"),
     MediaError(TRUE, "NotFoundError", "Requested device not found"),
     MediaError(TRUE, "NotReadableError", "Could not start video source"),
     MediaError(TRUE, "OverconstrainedError", "Constraints could not be satisfied"),
     MediaError(FALSE, "", "")}

\* the catch of startCamera (lines 238-257): the text of cameraError
CameraErrorMessage(error) ==
    IF error.isError
    THEN IF error.name = "NotAllowedError"
         THEN "Unable to access camera. Please allow camera permissions and try again."
         ELSE IF error.name = "NotFoundError"
         THEN "Unable to access camera. No camera found on this device."
         ELSE IF error.name = "NotReadableError"
         THEN "Unable to access camera. Camera is already in use by another application."
         ELSE "Unable to access camera. Error: " \o error.message
    ELSE "Unable to access camera. Please check permissions or use 'Upload from Gallery' instead."

\* one invocation of startCamera: where it is ("back": awaiting the first
\* getUserMedia, "any": awaiting the second, "stored", "failed") and the
\* facingMode of the requests it has made, in order
Invocation(phase, asked) == [phase |-> phase, asked |-> asked]

\* one call of onImagesUploaded: its argument, the stream the handler held
\* and the streams with live tracks at the time of the call
HandOff(images, held, live) == [images |-> images, held |-> held, live |-> live]

VideoElementMissing == "Video element not available"

\* the component is not in use
UploadUnused ==
    /\ selectedImages = <<>>
    /\ isCameraActive = FALSE
    /\ stream = None
    /\ cameraError = None
    /\ mounted = FALSE
    /\ invocations = <<>>
    /\ streamCount = 0
    /\ liveStreams = {}
    /\ timers = 0
    /\ pendingBlobs = 0
    /\ handedOff = <<>>

\* ----------------------------------------------------------- the system
\* the page is not in use: its state after the first render
PageUnused ==
    /\ assessmentState = "initial"
    /\ uploadedImages = <<>>
    /\ assessmentResult = None
    /\ pageError = None

TypeOK ==
    /\ pc \in {"idle", "awaitGemini", "awaitOpenAI", "awaitBilal", "responded"}
    /\ modelCalls \in Nat
    /\ bodyRead \in {"none", "json", "formData"}
    /\ resp.status \in {0, 200, 400, 413, 500}

Init ==
    /\ env \in Envs
    /\ req = NoRequest
    /\ pc = "idle"
    /\ resp = NoResponse
    /\ modelCalls = 0
    /\ bodyRead = "none"
    /\ sent = <<>>
    /\ outcome = NoOutcome
    /\ ServiceUnused
    /\ UploadUnused
    /\ PageUnused

\* a handler ran up to a response or up to the await of a model call
Step(r, result, awaiting, out) ==
    /\ req' = r
    /\ outcome' = out
    /\ bodyRead' = result.bodyRead
    /\ IF result.done
       THEN /\ pc' = "responded"
            /\ resp' = result.resp
            /\ sent' = sent
            /\ modelCalls' = modelCalls
       ELSE /\ pc' = awaiting
            /\ resp' = NoResponse
            /\ sent' = result.sent
            /\ modelCalls' = modelCalls + 1
    /\ UNCHANGED <<env, serviceVars, uploadVars, pageVars>>

\* a new request starts with nothing read, nothing sent, nothing called
Arrive(r, result, awaiting) ==
    /\ pc = "idle"
    /\ req' = r
    /\ outcome' = NoOutcome
    /\ bodyRead' = result.bodyRead
    /\ IF result.done
       THEN pc' = "responded" /\ resp' = result.resp /\ sent' = <<>> /\ modelCalls' = 0
       ELSE pc' = awaiting /\ resp' = NoResponse /\ sent' = result.sent /\ modelCalls' = 1
    /\ UNCHANGED <<env, serviceVars, uploadVars, pageVars>>

BatchOPTIONS(r) ==
    /\ r.endpoint = "batch" /\ r.method = "OPTIONS"
    /\ Arrive(r, Answered(BatchOPTIONSResponse(env, r), "none"), "awaitGemini")

SingleOPTIONS(r) ==
    /\ r.endpoint = "single" /\ r.method = "OPTIONS"
    /\ Arrive(r, Answered(SingleOPTIONSResponse(env, r), "none"), "awaitOpenAI")

BatchPOST(r) ==
    /\ r.endpoint = "batch" /\ r.method = "POST"
    /\ Arrive(r, BatchPOSTBegin(env, r), "awaitGemini")

SinglePOST(r) ==
    /\ r.endpoint = "single" /\ r.method = "POST"
    /\ Arrive(r, SinglePOSTBegin(env, r), "awaitOpenAI")

BilalPOST(r) ==
    /\ r.endpoint = "bilal" /\ r.method = "POST"
    /\ Arrive(r, BilalPOSTBegin(env, r), "awaitBilal")

\* generateContent settles and the alternative handler runs to its response
BilalGeminiReturns(out) ==
    /\ pc = "awaitBilal"
    /\ Step(req, BilalPOSTResume(env, req, out), "awaitBilal", out)

\* generateContent settles and the batch handler runs to its response
GeminiReturns(out) ==
    /\ pc = "awaitGemini"
    /\ Step(req, BatchPOSTResume(env, req, out), "awaitGemini", out)

\* generateObject settles and the single-image handler runs to its response
OpenAIReturns(out) ==
    /\ pc = "awaitOpenAI"
    /\ Step(req, SinglePOSTResume(env, req, out), "awaitOpenAI", out)

\* the response has been sent; the serverless function is idle again and
\* keeps nothing of the request
Finish ==
    /\ pc = "responded"
    /\ pc' = "idle"
    /\ req' = NoRequest
    /\ resp' = NoResponse
    /\ modelCalls' = 0
    /\ bodyRead' = "none"
    /\ sent' = <<>>
    /\ outcome' = NoOutcome
    /\ UNCHANGED <<env, serviceVars, uploadVars, pageVars>>

Next ==
    \/ \E r \in OptionsRequests : BatchOPTIONS(r)
    \/ \E r \in OptionsRequests : SingleOPTIONS(r)
    \/ \E r \in BatchRequests : BatchPOST(r)
    \/ \E r \in SingleRequests : SinglePOST(r)
    \/ \E out \in GeminiOutcomes : GeminiReturns(out)
    \/ \E out \in OpenAIOutcomes : OpenAIReturns(out)
    \/ \E r \in BilalRequests : BilalPOST(r)
    \/ \E out \in BilalOutcomes : BilalGeminiReturns(out)
    \/ Finish

Spec == Init /\ [][Next]_vars

\* ------------------------------------ the CORS headers, over many settings
CorsAlphabet == {"A", "B", "*", ",", " "}

\* ALLOWED_ORIGIN: unset, or any text of up to MaxEnvLen tokens
AllowedOriginValues ==
    {None} \cup {Some(s) : s \in UNION {[1..k -> CorsAlphabet] : k \in 0..MaxEnvLen}}

\* the Origin header: absent, empty, listed or unlisted origins
CorsOrigins ==
    {None, Some(<<>>), Some(<<"A">>), Some(<<"B">>), Some(<<"C">>), Some(<<"A", "B">>)}

CorsRequests ==
    {Request(ep, "OPTIONS", o, <<>>, None, 0, Body("none", NoImages, NoImage)) :
        ep \in {"batch", "single"}, o \in CorsOrigins}
    \cup {Request("batch", "POST", o, <<"application/json">>, None, 1024,
                  Body("object", im, NoImage)) :
            o \in CorsOrigins,
            im \in {NoImages, [t |-> "arr", items |-> ImageArray(1, "plain")]}}
    \cup {Request("single", "POST", o, <<"application/json">>, None, 1024,
                  Body("object", NoImages, im)) :
            o \in CorsOrigins, im \in {NoImage, Plain(1)}}

InitCors ==
    /\ env \in {Env(a, None, None) : a \in AllowedOriginValues}
    /\ req = NoRequest
    /\ pc = "idle"
    /\ resp = NoResponse
    /\ modelCalls = 0
    /\ bodyRead = "none"
    /\ sent = <<>>
    /\ outcome = NoOutcome
    /\ ServiceUnused
    /\ UploadUnused
    /\ PageUnused

NextCors ==
    \/ \E r \in CorsRequests : BatchOPTIONS(r)
    \/ \E r \in CorsRequests : SingleOPTIONS(r)
    \/ \E r \in CorsRequests : BatchPOST(r)
    \/ \E r \in CorsRequests : SinglePOST(r)
    \/ Finish

SpecCors == InitCors /\ [][NextCors]_vars

\* ------------------------------------------------ the client service
\* the route handlers are not in use
RouteUnused ==
    /\ env = Env(None, None, None)
    /\ req = NoRequest
    /\ pc = "idle"
    /\ resp = NoResponse
    /\ modelCalls = 0
    /\ bodyRead = "none"
    /\ sent = <<>>
    /\ outcome = NoOutcome

InitService ==
    /\ RouteUnused
    /\ request \in {AssessmentRequest(l) : l \in FileLists}
    /\ svcPc = "idle"
    /\ fetchCalls = 0
    /\ fetched = NoFetch
    /\ errorMessage = None
    /\ adjustedConfidence = 0
    /\ settled = Pending
    /\ validation = NoValidation
    /\ UploadUnused
    /\ PageUnused

\* the page validates the images it holds
ValidateImages ==
    /\ svcPc = "idle"
    /\ validation' = validateImages(request.images)
    /\ svcPc' = "validated"
    /\ UNCHANGED <<request, fetchCalls, fetched, errorMessage, adjustedConfidence, settled,
                   routeVars, uploadVars, pageVars>>

\* performEyeAssessment(request) is called and runs to its first await
PerformEyeAssessment ==
    /\ svcPc = "idle"
    /\ LET r == performEyeAssessmentBegin(request)
       IN  /\ settled' = r
           /\ IF r.state = "pending"
              THEN svcPc' = "fetching" /\ fetchCalls' = fetchCalls + 1
              ELSE svcPc' = "done" /\ fetchCalls' = fetchCalls
    /\ UNCHANGED <<request, fetched, errorMessage, adjustedConfidence, validation, routeVars, uploadVars, pageVars>>

\* fetch settles; the call returns or falls back to the mock
FetchSettles(out) ==
    /\ svcPc = "fetching"
    /\ fetched' = out
    /\ LET r == performEyeAssessmentAfterFetch(out)
       IN  /\ settled' = r.settled
           /\ errorMessage' = r.errorMessage
           /\ svcPc' = IF r.settled.state = "pending" THEN "mock" ELSE "done"
    /\ UNCHANGED <<request, fetchCalls, adjustedConfidence, validation, routeVars, uploadVars, pageVars>>

\* the delay of performMockAssessment ends; the call returns
MockSettles(kIndex, kVar) ==
    /\ svcPc = "mock"
    /\ LET mock == performMockAssessment(request, kIndex, kVar)
       IN  /\ adjustedConfidence' = mock.adjusted
           /\ settled' = performEyeAssessmentFinish(mock, errorMessage)
    /\ svcPc' = "done"
    /\ UNCHANGED <<request, fetchCalls, fetched, errorMessage, validation, routeVars, uploadVars, pageVars>>

NextService ==
    \/ ValidateImages
    \/ PerformEyeAssessment
    \/ \E out \in FetchOutcomes : FetchSettles(out)
    \/ \E kIndex \in IndexDraws, kVar \in VariationDraws : MockSettles(kIndex, kVar)

SpecService == InitService /\ [][NextService]_vars

\* ------------------------------------------------------ PhotoUpload
\* the component after its first render (the useState initial values)
InitUpload ==
    /\ RouteUnused
    /\ ServiceUnused
    /\ PageUnused
    /\ selectedImages = <<>>
    /\ isCameraActive = FALSE
    /\ stream = None
    /\ cameraError = None
    /\ mounted = TRUE
    /\ invocations = <<>>
    /\ streamCount = 0
    /\ liveStreams = {}
    /\ timers = 0
    /\ pendingBlobs = 0
    /\ handedOff = <<>>

\* environment of the component that its handlers do not touch
UploadFrame == UNCHANGED <<routeVars, serviceVars, pageVars>>

\* handleFileSelect (lines 156-160): the user picked files in the dialog
handleFileSelect(files) ==
    /\ mounted
    /\ Len(selectedImages) + Len(files) <= MaxSelected
    /\ selectedImages' = selectedImages \o ImageFilesOf(files)
    /\ UNCHANGED <<isCameraActive, stream, cameraError, mounted, invocations, streamCount,
                   liveStreams, timers, pendingBlobs, handedOff>>
    /\ UploadFrame

\* removeImage(index) (lines 325-327), from the X button of a shown image
removeImage(index) ==
    /\ mounted
    /\ index + 1 \in 1..Len(selectedImages)
    /\ selectedImages' = RemoveAt(selectedImages, index)
    /\ UNCHANGED <<isCameraActive, stream, cameraError, mounted, invocations, streamCount,
                   liveStreams, timers, pendingBlobs, handedOff>>
    /\ UploadFrame

\* startCamera up to its first await (lines 162-176): the Take Photos
\* button, enabled while isCameraActive is false
startCamera ==
    /\ mounted
    /\ ~isCameraActive
    /\ Len(invocations) < MaxStarts
    /\ cameraError' = None
    /\ invocations' = Append(invocations, Invocation("back", <<"environment">>))
    /\ UNCHANGED <<selectedImages, isCameraActive, stream, mounted, streamCount,
                   liveStreams, timers, pendingBlobs, handedOff>>
    /\ UploadFrame

\* lines 189-237 for invocation i: getUserMedia resolved to a new stream;
\* the state setters of a component that is gone do nothing
StreamObtained(i, phase) ==
    /\ streamCount' = streamCount + 1
    /\ liveStreams' = liveStreams \cup {streamCount + 1}
    /\ invocations' = [invocations EXCEPT ![i].phase = phase]
    /\ timers' = timers + 1
    /\ IF mounted
       THEN stream' = Some(streamCount + 1) /\ isCameraActive' = TRUE
       ELSE UNCHANGED <<stream, isCameraActive>>
    /\ UNCHANGED <<selectedImages, cameraError, mounted, pendingBlobs, handedOff>>

\* the back-camera request of invocation i settles (lines 169-187)
BackCameraSettles(i, ok) ==
    /\ i \in 1..Len(invocations)
    /\ invocations[i].phase = "back"
    /\ IF ok
       THEN StreamObtained(i, "stored")
       ELSE /\ invocations' =
                 [invocations EXCEPT ![i] = Invocation("any", Append(@.asked, "any"))]
            /\ UNCHANGED <<selectedImages, isCameraActive, stream, cameraError, mounted,
                           streamCount, liveStreams, timers, pendingBlobs, handedOff>>
    /\ UploadFrame

\* the any-camera request of invocation i resolves (lines 180-237)
AnyCameraResolves(i) ==
    /\ i \in 1..Len(invocations)
    /\ invocations[i].phase = "any"
    /\ StreamObtained(i, "stored")
    /\ UploadFrame

\* the any-camera request of invocation i rejects (lines 238-258)
AnyCameraRejects(i, error) ==
    /\ i \in 1..Len(invocations)
    /\ invocations[i].phase = "any"
    /\ invocations' = [invocations EXCEPT ![i].phase = "failed"]
    /\ IF mounted
       THEN cameraError' = Some(CameraErrorMessage(error)) /\ isCameraActive' = FALSE
       ELSE UNCHANGED <<cameraError, isCameraActive>>
    /\ UNCHANGED <<selectedImages, stream, mounted, streamCount, liveStreams, timers,
                   pendingBlobs, handedOff>>
    /\ UploadFrame

\* the 100 ms timer of startCamera fires (lines 196-237); the video element
\* exists while the camera card is rendered; playback then starts or fails
VideoTimeout(playback) ==
    /\ timers > 0
    /\ timers' = timers - 1
    /\ cameraError' =
          IF ~mounted THEN cameraError
          ELSE IF ~isCameraActive THEN Some(VideoElementMissing)
          ELSE IF playback = "ok" THEN cameraError
          ELSE Some(playback)
    /\ UNCHANGED <<selectedImages, isCameraActive, stream, mounted, invocations,
                   streamCount, liveStreams, pendingBlobs, handedOff>>
    /\ UploadFrame

\* the body of stopCamera (lines 316-323)
stopCameraBodyKeepsTracks ==
    /\ liveStreams' = liveStreams
    /\ stream' = None
    /\ isCameraActive' = FALSE
    /\ cameraError' = None

stopCameraBody ==
    /\ liveStreams' = IF IsSome(stream) THEN liveStreams \ {stream[1]} ELSE liveStreams
    /\ stream' = None
    /\ isCameraActive' = FALSE
    /\ cameraError' = None

\* the Stop Camera button, rendered in the camera card
stopCamera ==
    /\ mounted
    /\ isCameraActive
    /\ stopCameraBody
    /\ UNCHANGED <<selectedImages, mounted, invocations, streamCount, timers,
                   pendingBlobs, handedOff>>
    /\ UploadFrame

\* capturePhoto up to canvas.toBlob (lines 261-292): the Capture Photo
\* button, rendered in the camera card and enabled while a stream is held;
\* ready tells whether the video has non-zero dimensions
capturePhoto(ready) ==
    /\ mounted
    /\ isCameraActive
    /\ IsSome(stream)
    /\ Len(selectedImages) + pendingBlobs < MaxSelected
    /\ IF ready
       THEN pendingBlobs' = pendingBlobs + 1 /\ UNCHANGED cameraError
       ELSE /\ cameraError' = Some("Video not ready for capture. Please wait a moment and try again.")
            /\ UNCHANGED pendingBlobs
    /\ UNCHANGED <<selectedImages, isCameraActive, stream, mounted, invocations,
                   streamCount, liveStreams, timers, handedOff>>
    /\ UploadFrame

\* the callback of canvas.toBlob (lines 293-310), with a blob or with null
BlobReadyPrepends(hasBlob) ==
    /\ pendingBlobs > 0
    /\ pendingBlobs' = pendingBlobs - 1
    /\ IF ~mounted THEN UNCHANGED <<selectedImages, cameraError>>
       ELSE IF hasBlob
       THEN selectedImages' = <<CameraPhoto>> \o selectedImages /\ UNCHANGED cameraError
       ELSE cameraError' = Some("Failed to capture photo") /\ UNCHANGED selectedImages
    /\ UNCHANGED <<isCameraActive, stream, mounted, invocations, streamCount,
                   liveStreams, timers, handedOff>>
    /\ UploadFrame

BlobReady(hasBlob) ==
    /\ pendingBlobs > 0
    /\ pendingBlobs' = pendingBlobs - 1
    /\ IF ~mounted THEN UNCHANGED <<selectedImages, cameraError>>
       ELSE IF hasBlob
       THEN selectedImages' = Append(selectedImages, CameraPhoto) /\ UNCHANGED cameraError
       ELSE cameraError' = Some("Failed to capture photo") /\ UNCHANGED selectedImages
    /\ UNCHANGED <<isCameraActive, stream, mounted, invocations, streamCount,
                   liveStreams, timers, handedOff>>
    /\ UploadFrame

\* handleUpload (lines 329-334): the Analyze button, rendered while
\* selectedImages is not empty; the page that receives the images leaves
\* its "initial" state, which removes the component
handleUploadAll ==
    /\ mounted
    /\ Len(selectedImages) > 0
    /\ stopCameraBody
    /\ handedOff' = Append(handedOff, HandOff(selectedImages, stream, liveStreams'))
    /\ mounted' = FALSE
    /\ UNCHANGED <<selectedImages, invocations, streamCount, timers, pendingBlobs>>
    /\ UploadFrame

handleUpload ==
    /\ mounted
    /\ Len(selectedImages) > 0
    /\ stopCameraBody
    /\ handedOff' = Append(handedOff, HandOff(<<selectedImages[1]>>, stream, liveStreams'))
    /\ mounted' = FALSE
    /\ UNCHANGED <<selectedImages, invocations, streamCount, timers, pendingBlobs>>
    /\ UploadFrame

PlaybackResults == {"ok", "Failed to start video playback", "Video playback error"}

NextUpload ==
    \/ \E files \in FileSelections : handleFileSelect(files)
    \/ \E index \in 0..(MaxSelected - 1) : removeImage(index)
    \/ startCamera
    \/ \E i \in 1..MaxStarts, ok \in BOOLEAN : BackCameraSettles(i, ok)
    \/ \E i \in 1..MaxStarts : AnyCameraResolves(i)
    \/ \E i \in 1..MaxStarts, error \in MediaErrors : AnyCameraRejects(i, error)
    \/ \E playback \in PlaybackResults : VideoTimeout(playback)
    \/ stopCamera
    \/ \E ready \in BOOLEAN : capturePhoto(ready)
    \/ \E hasBlob \in BOOLEAN : BlobReady(hasBlob)
    \/ handleUpload

SpecUpload == InitUpload /\ [][NextUpload]_vars

\* ------------------------------------------ the main page: app/page.tsx
\* what PhotoUpload hands to onImagesUploaded: one file, or two
PageUploads == {<<f>> : f \in Files} \cup {<<GoodFile, LargeFile>>}

InitPage ==
    /\ RouteUnused
    /\ ServiceUnused
    /\ UploadUnused
    /\ PageUnused

\* handleImagesUploaded (lines 20-33); PhotoUpload is rendered in the
\* state "initial" only (lines 83-118)
handleImagesUploaded(images) ==
    /\ assessmentState = "initial"
    /\ LET checked == validateImages(images)
       IN  IF ~checked.isValid
           THEN /\ pageError' = Some(checked.issues)
                /\ assessmentState' = "error"
                /\ UNCHANGED uploadedImages
           ELSE /\ uploadedImages' = images
                /\ assessmentState' = "uploading"
                /\ pageError' = None
    /\ UNCHANGED <<assessmentResult, routeVars, serviceVars, uploadVars>>

\* handleStartAssessment up to its await (lines 35-41); the button is
\* rendered in the states "uploading" and "error" (lines 120-150)
handleStartAssessment ==
    /\ assessmentState \in {"uploading", "error"}
    /\ svcPc = "idle"
    /\ assessmentState' = "analyzing"
    /\ request' = AssessmentRequest(uploadedImages)
    /\ LET r == performEyeAssessmentBegin(request')
       IN  /\ settled' = r
           /\ IF r.state = "pending"
              THEN svcPc' = "fetching" /\ fetchCalls' = fetchCalls + 1
              ELSE svcPc' = "done" /\ fetchCalls' = fetchCalls
    /\ UNCHANGED <<uploadedImages, assessmentResult, pageError, fetched, errorMessage,
                   adjustedConfidence, validation, routeVars, uploadVars>>

\* handleStartAssessment from the settled call (lines 43-48)
AssessmentSettles ==
    /\ assessmentState = "analyzing"
    /\ svcPc = "done"
    /\ IF settled.state = "fulfilled"
       THEN /\ assessmentResult' = IF settled.value = NoResult THEN None ELSE Some(settled.value)
            /\ assessmentState' = "results"
            /\ UNCHANGED pageError
       ELSE /\ pageError' = Some(settled.reason.message)
            /\ assessmentState' = "error"
            /\ UNCHANGED assessmentResult
    /\ request' = AssessmentRequest(<<>>)
    /\ svcPc' = "idle"
    /\ fetchCalls' = 0
    /\ fetched' = NoFetch
    /\ errorMessage' = None
    /\ adjustedConfidence' = 0
    /\ settled' = Pending
    /\ UNCHANGED <<uploadedImages, validation, routeVars, uploadVars>>

\* handleStartOver (lines 51-56): "Upload Different Photos" in the states
\* "uploading" and "error", onStartOver of AssessmentResults, which is
\* rendered in the state "results" with a result (lines 58-60)
handleStartOver ==
    /\ \/ assessmentState \in {"uploading", "error"}
       \/ assessmentState = "results" /\ IsSome(assessmentResult)
    /\ assessmentState' = "initial"
    /\ uploadedImages' = <<>>
    /\ assessmentResult' = None
    /\ pageError' = None
    /\ UNCHANGED <<routeVars, serviceVars, uploadVars>>

NextPage ==
    \/ \E images \in PageUploads : handleImagesUploaded(images)
    \/ handleStartAssessment
    \/ \E out \in FetchOutcomes : FetchSettles(out)
    \/ \E kIndex \in IndexDraws, kVar \in VariationDraws : MockSettles(kIndex, kVar)
    \/ AssessmentSettles
    \/ handleStartOver

SpecPage == InitPage /\ [][NextPage]_vars

\* ================================================================ claims
Responded == pc = "responded"

BatchPost == req.endpoint = "batch" /\ req.method = "POST"

SinglePost == req.endpoint = "single" /\ req.method = "POST"

Awaiting == pc \in {"awaitGemini", "awaitOpenAI", "awaitBilal"}

\* the JSON body of the batch request holds an images array
HasImagesArray == req.body.kind = "object" /\ req.body.images.t = "arr"

ImageCount == Len(req.body.images.items)

\* the request declares, in Content-Length, more than 100MB
DeclaresTooLarge ==
    IsSome(req.contentLength) /\ req.contentLength[1][1] > 100 * 1024 * 1024

CountMessage == Some(<<"Please provide between 1 and 6 images">>)

\* C1 as stated: a batch request whose images array has 0 or more than 6
\* entries is answered 400 "Please provide between 1 and 6 images", key or
\* no key, and the model is never called; 1 to 6 entries never get that
\* answer.
C1_Original ==
    (BatchPost /\ HasImagesArray) =>
        /\ (ImageCount = 0 \/ ImageCount > 6) =>
              /\ ~Awaiting /\ modelCalls = 0
              /\ Responded => (resp.status = 400 /\ resp.body.error = CountMessage)
        /\ (ImageCount >= 1 /\ ImageCount <= 6) => resp.body.error # CountMessage

\* C1 amended: the same, for requests that do not declare more than 100MB
\* in Content-Length (those are answered 413 before the body is read).
C1_CountBound ==
    (BatchPost /\ HasImagesArray /\ ~DeclaresTooLarge) =>
        /\ (ImageCount = 0 \/ ImageCount > 6) =>
              /\ ~Awaiting /\ modelCalls = 0
              /\ Responded => (resp.status = 400 /\ resp.body.error = CountMessage)
        /\ (ImageCount >= 1 /\ ImageCount <= 6) => resp.body.error # CountMessage

C1_Witness ==
    /\ Responded /\ BatchPost /\ HasImagesArray /\ ImageCount = 7
    /\ IsSome(env.GOOGLE_GENERATIVE_AI_API_KEY)
    /\ resp.status = 400 /\ resp.body.error = CountMessage

\* C2: a batch request whose body is larger than 100MB is answered 413,
\* its body is never read and nothing is sent to the model.
C2_Original ==
    (BatchPost /\ req.bodySize > 100 * 1024 * 1024) =>
        /\ bodyRead = "none" /\ ~Awaiting /\ modelCalls = 0
        /\ Responded => resp.status = 413

\* the request passed the size, image-presence and image-count checks
PassesBatchChecks ==
    /\ BatchPost /\ ~DeclaresTooLarge /\ HasImagesArray
    /\ ImageCount >= 1 /\ ImageCount <= 6

PassesSingleChecks ==
    /\ SinglePost
    /\ \/ /\ Includes(req.contentType, <<"application/json">>)
          /\ req.body.kind = "object"
       \/ /\ ~Includes(req.contentType, <<"application/json">>)
          /\ req.body.kind = "form"
    /\ req.body.image.t # "missing"
    /\ (req.body.image.t = "str" => Len(req.body.image.s) > 0)

KeyUnset ==
    \/ BatchPost /\ env.GOOGLE_GENERATIVE_AI_API_KEY = None
    \/ SinglePost /\ env.OPENAI_API_KEY = None

\* C3: with the provider's API key unset, a POST that passes the request
\* checks is answered 500 with isMockResult true, and no model is called.
C3_MissingKey ==
    ((PassesBatchChecks \/ PassesSingleChecks) /\ KeyUnset) =>
        /\ ~Awaiting /\ modelCalls = 0
        /\ Responded => (resp.status = 500 /\ resp.body.isMockResult = Some(TRUE))

C3_Witness ==
    /\ Responded /\ PassesSingleChecks /\ KeyUnset
    /\ resp.status = 500 /\ resp.body.isMockResult = Some(TRUE)
    /\ resp.body.error = Some(<<"OpenAI API key not configured">>)

\* the model's JSON object reached the validator with a required field
\* missing, a riskLevel outside the three labels, or a number out of range
C4_OutputFails ==
    LET d == outcome.desc
        node == BatchAssessmentSchema[d.path]
    IN  /\ outcome.kind = "text" /\ outcome.text \in ObjectTexts
        /\ d.path \in DOMAIN BatchAssessmentSchema
        /\ \/ d.val.t = "missing" /\ node.kind \notin {"arrdef", "objopt"}
           \/ node.kind = "enum" /\ d.val.s \notin {"Low Risk", "Medium Risk", "High Risk"}
           \/ node.kind = "num" /\ d.val.t = "num"
                /\ (d.val.n < node.lo \/ d.val.n > node.hi)

\* C4: the batch handler never returns a model output that fails the
\* schema in a success response; it answers with an error status and
\* isMockResult true.
C4_InvalidRejected ==
    (Responded /\ BatchPost /\ C4_OutputFails) =>
        /\ resp.status >= 400
        /\ resp.body.isMockResult = Some(TRUE)
        /\ resp.body.assessment = None

C4_Witness ==
    /\ Responded /\ BatchPost /\ C4_OutputFails
    /\ outcome.desc.path = "sharpnessScore" /\ outcome.desc.val = Num(101)
    /\ resp.status = 500

\* every node the schema requires is there
C5_Complete(schema, a) ==
    \A p \in DOMAIN schema :
        (Present(schema, a, p) /\ schema[p].kind # "objopt") => a[p].t # "missing"

C5_Schema == IF req.endpoint = "batch" THEN BatchAssessmentSchema ELSE SingleAssessmentSchema

\* C5: every response of the two POST handlers is either 200 with a
\* complete assessment, isMockResult false and no error key, or 4xx/5xx
\* with a non-empty error string and no isMockResult false.
C5_ResponseShape ==
    (Responded /\ req.method = "POST") =>
        \/ /\ resp.status = 200
           /\ IsSome(resp.body.assessment)
           /\ C5_Complete(C5_Schema, resp.body.assessment[1])
           /\ resp.body.isMockResult = Some(FALSE)
           /\ resp.body.error = None
           /\ ~("error" \in DOMAIN resp.body.assessment[1]
                   /\ resp.body.assessment[1]["error"].t # "missing")
        \/ /\ resp.status >= 400 /\ resp.status <= 599
           /\ IsSome(resp.body.error) /\ Len(resp.body.error[1]) > 0
           /\ resp.body.isMockResult # Some(FALSE)
           /\ resp.body.assessment = None

C5_Witness ==
    /\ Responded /\ BatchPost /\ resp.status = 200
    /\ outcome.desc.path = "error" /\ outcome.desc.val.t = "str"
    /\ resp.body.isMockResult = Some(FALSE)

\* C6: when generateContent throws in the batch handler, a message with
\* "API key" or "authentication" gives "Google API key not configured or
\* invalid" (500), one with "quota" or "billing" gives "API quota exceeded
\* or billing issue" (500), and a payload-too-large message gives 413.
C6_Original ==
    LET m == outcome.err.message
        keyMsg == Includes(m, <<"API", " ", "key">>) \/ Includes(m, <<"authentication">>)
        quotaMsg == Includes(m, <<"quota">>) \/ Includes(m, <<"billing">>)
        largeMsg == Includes(m, <<"too", " ", "large">>) \/ Includes(m, <<"413">>)
    IN  (Responded /\ BatchPost /\ outcome.kind = "throw" /\ outcome.err.kind = "Error") =>
            /\ keyMsg =>
                  /\ resp.status = 500
                  /\ resp.body.error = Some(<<"Google API key not configured or invalid">>)
            /\ (~keyMsg /\ quotaMsg) =>
                  /\ resp.status = 500
                  /\ resp.body.error = Some(<<"API quota exceeded or billing issue">>)
            /\ (~keyMsg /\ ~quotaMsg /\ largeMsg) => resp.status = 413

C7_NoRetryStep ==
    (Awaiting /\ outcome'.kind = "throw") =>
        /\ pc' = "responded"
        /\ resp'.status >= 400
        /\ modelCalls' = modelCalls

\* C7: a POST causes at most one call to the external model; when the call
\* fails the handler answers with a failure and issues no second call.
C7_AtMostOneCall == [](modelCalls <= 1) /\ [][C7_NoRetryStep]_vars

C7_Witness ==
    /\ Responded /\ BatchPost /\ outcome.kind = "throw"
    /\ modelCalls = 1 /\ resp.status = 500

\* the allow-list the claims speak of: ALLOWED_ORIGIN split on commas, trimmed
C8_List ==
    LET v == IF env.ALLOWED_ORIGIN = None \/ env.ALLOWED_ORIGIN = Some(<<>>)
             THEN <<"*">> ELSE env.ALLOWED_ORIGIN[1]
        parts == Split(v, ",")
    IN  [i \in 1..Len(parts) |-> Trim(parts[i])]

C8_Listed(x) == \E i \in 1..Len(C8_List) : C8_List[i] = x

BatchResponse == Responded /\ req.endpoint = "batch"

\* C8 as stated: Access-Control-Allow-Origin is "*" when ALLOWED_ORIGIN is
\* unset, empty or lists "*"; else the request's Origin header when it
\* equals a listed entry; else the first entry.
C8_Original ==
    BatchResponse =>
        resp.acao = Some(IF C8_Listed(<<"*">>) THEN <<"*">>
                         ELSE IF IsSome(req.origin) /\ C8_Listed(req.origin[1])
                              THEN req.origin[1]
                         ELSE C8_List[1])

\* C8 amended: the Origin header is used when it is non-empty and equals a
\* listed entry; the value is always "*" or a listed entry, and an
\* unlisted origin is never echoed.
C8_AllowOrigin ==
    BatchResponse =>
        /\ resp.acao = Some(IF C8_Listed(<<"*">>) THEN <<"*">>
                            ELSE IF IsSome(req.origin) /\ Len(req.origin[1]) > 0
                                    /\ C8_Listed(req.origin[1])
                                 THEN req.origin[1]
                            ELSE C8_List[1])
        /\ resp.acao = Some(<<"*">>) \/ C8_Listed(resp.acao[1])
        /\ (IsSome(req.origin) /\ ~C8_Listed(req.origin[1])) =>
              (resp.acao = Some(<<"*">>) \/ resp.acao # req.origin)

C8_Witness ==
    /\ BatchResponse /\ ~C8_Listed(<<"*">>)
    /\ Len(C8_List) = 2 /\ C8_List[1] = <<"A">> /\ C8_List[2] = <<"B">>
    /\ req.origin = Some(<<"B">>) /\ resp.acao = Some(<<"B">>)

\* C9: the single-image endpoint's Access-Control-Allow-Origin is "*" or
\* exactly one listed origin, the value getCorsHeaders gives the request.
C9_Original ==
    (Responded /\ req.endpoint = "single") =>
        /\ resp.acao = Some(getCorsHeaders(env, req))
        /\ resp.acao = Some(<<"*">>) \/ C8_Listed(resp.acao[1])

ContentTypeIsJson == Includes(req.contentType, <<"application/json">>)

\* the request carries no image: body.image / the image part is absent or ""
NoImageSent ==
    req.body.image.t = "missing" \/ (req.body.image.t = "str" /\ Len(req.body.image.s) = 0)

NoImageAnswer ==
    /\ ~Awaiting /\ modelCalls = 0
    /\ Responded => (resp.status = 400 /\ resp.body.error = Some(<<"No image provided">>))

ReadAsContentTypeSays ==
    (SinglePost /\ pc # "idle") =>
        bodyRead = IF ContentTypeIsJson THEN "json" ELSE "formData"

\* C10 as stated: the single-image POST reads the body as JSON exactly
\* when Content-Type contains "application/json", as form data otherwise,
\* and a request without an image is answered 400 "No image provided"
\* before the key check and before any model call.
C10_Original ==
    /\ ReadAsContentTypeSays
    /\ (SinglePost /\ NoImageSent) => NoImageAnswer

\* C10 amended: the same for a request whose body the chosen reader can
\* read (a JSON object, or form data); a body that cannot be read, or JSON
\* null, is answered 500 by the catch block.
C10_NoImage ==
    /\ ReadAsContentTypeSays
    /\ (SinglePost /\ NoImageSent
          /\ req.body.kind = IF ContentTypeIsJson THEN "object" ELSE "form") => NoImageAnswer

C10_Witness ==
    /\ Responded /\ SinglePost /\ NoImageSent /\ ~ContentTypeIsJson
    /\ req.body.kind = "form" /\ bodyRead = "formData"
    /\ env.OPENAI_API_KEY = None
    /\ resp.status = 400 /\ resp.body.error = Some(<<"No image provided">>)

\* ------------------------------------------------- the client service
\* the call has settled
ServiceDone == svcPc = "done"

\* the fetch failed, the server answered non-2xx, or the body of the
\* response could not be read
FetchFailed ==
    \/ fetched.kind = "reject"
    \/ fetched.kind = "response" /\ (~fetched.ok \/ fetched.body = "unreadable")

\* C11: performEyeAssessment called with at least one image never rejects;
\* when the fetch fails, the server answers non-2xx or the body cannot be
\* read it resolves to a mock result with isMockResult true and an
\* errorMessage; it rejects only for an empty image list, with "No images
\* provided for assessment", and then no fetch has been made.
C11_NeverRejects ==
    /\ Len(request.images) >= 1 => settled.state # "rejected"
    /\ (ServiceDone /\ FetchFailed) =>
          /\ settled.state = "fulfilled"
          /\ settled.value.isMockResult = Some(TRUE)
          /\ IsSome(settled.value.errorMessage)
    /\ settled.state = "rejected" =>
          /\ Len(request.images) = 0
          /\ settled.reason = NoImagesError
          /\ fetchCalls = 0

C11_Witness ==
    /\ ServiceDone /\ Len(request.images) >= 1
    /\ fetched.kind = "response" /\ ~fetched.ok /\ fetched.body = "null"
    /\ settled.state = "fulfilled" /\ settled.value.isMockResult = Some(TRUE)
    /\ settled.value.errorMessage = Some("AI service temporarily unavailable")

\* performMockAssessment has returned to the catch of performEyeAssessment
MockReturned == ServiceDone /\ settled.state = "fulfilled" /\ IsSome(errorMessage)

\* the result has the fixed fields of entry e of MOCK_RESULTS
SameFixedFields(e) ==
    /\ settled.value.riskLevel = e.riskLevel
    /\ settled.value.explanation = e.explanation
    /\ settled.value.callToAction = e.callToAction
    /\ settled.value.detectedFeatures = e.detectedFeatures

\* C12: every result of performMockAssessment has the riskLevel,
\* explanation, callToAction and detectedFeatures of one entry of
\* MOCK_RESULTS, has isMockResult true, a confidence within [0.60, 0.99],
\* and its confidence before rounding is within 0.05 of that entry's.
C12_MockFromList ==
    MockReturned =>
        /\ settled.value.isMockResult = Some(TRUE)
        /\ IsSome(settled.value.confidence)
        /\ settled.value.confidence[1] >= 60 /\ settled.value.confidence[1] <= 99
        /\ adjustedConfidence >= 60000 /\ adjustedConfidence <= 99000
        /\ \E i \in 1..Len(MOCK_RESULTS) :
              /\ SameFixedFields(MOCK_RESULTS[i])
              /\ adjustedConfidence - 1000 * MOCK_RESULTS[i].confidence[1] <= 5000
              /\ 1000 * MOCK_RESULTS[i].confidence[1] - adjustedConfidence <= 5000

\* the weighted pool was used and the sixth entry came out 0.05 lower
C12_Witness ==
    /\ MockReturned
    /\ Len(request.images) > 1
    /\ \E i \in 1..Len(request.images) : request.images[i].size > 1000000
    /\ SameFixedFields(MOCK_RESULTS[6])
    /\ adjustedConfidence = 89000
    /\ settled.value.confidence = Some(89)

\* validateImages has returned
Validated == svcPc = "validated"

ImagesGiven == request.images

\* the MIME type starts with "image/"
IsImageType(f) == Len(f.type) > 0 /\ f.type[1] = "image/"

\* the rules of validateImages that the list breaks, one per rule and image
Violations ==
    LET n == Len(ImagesGiven)
    IN  (IF n < 1 THEN {Issue("At least one image is required", 0)} ELSE {})
        \cup (IF n > 10 THEN {Issue("Maximum 10 images allowed", 0)} ELSE {})
        \cup {Issue("not a valid image", i) : i \in {j \in 1..n : ~IsImageType(ImagesGiven[j])}}
        \cup {Issue("too large", i) : i \in {j \in 1..n : ImagesGiven[j].size > 10 * 1024 * 1024}}
        \cup {Issue("too small or corrupted", i) : i \in {j \in 1..n : ImagesGiven[j].size < 1024}}

\* C13: validateImages returns isValid true exactly when the list has 1 to
\* 10 images, each with a MIME type starting with "image/" and a size of
\* 1024 to 10*1024*1024 bytes inclusive; isValid is true exactly when the
\* issues list is empty; every broken rule adds its own issue.
C13_Validation ==
    Validated =>
        /\ validation.isValid <=>
              /\ Len(ImagesGiven) >= 1 /\ Len(ImagesGiven) <= 10
              /\ \A i \in 1..Len(ImagesGiven) :
                    /\ IsImageType(ImagesGiven[i])
                    /\ ImagesGiven[i].size >= 1024
                    /\ ImagesGiven[i].size <= 10 * 1024 * 1024
        /\ validation.isValid <=> (validation.issues = <<>>)
        /\ {validation.issues[k] : k \in 1..Len(validation.issues)} = Violations
        /\ Len(validation.issues) = Cardinality(Violations)

\* eleven images, the last one neither an image nor large enough
C13_Witness ==
    /\ Validated
    /\ Len(ImagesGiven) = 11
    /\ ~IsImageType(ImagesGiven[11]) /\ ImagesGiven[11].size < 1024
    /\ ~validation.isValid
    /\ Len(validation.issues) = 3

\* ----------------------------------------------------------- PhotoUpload
\* C14: when the user invokes stopCamera while a stream is held, afterwards
\* every track of that stream is stopped, stream is null, isCameraActive is
\* false, cameraError is null, and selectedImages is as before.
C14_StopCamera ==
    [][(stopCamera /\ IsSome(stream)) =>
          /\ stream[1] \notin liveStreams'
          /\ stream' = None
          /\ isCameraActive' = FALSE
          /\ cameraError' = None
          /\ selectedImages' = selectedImages]_vars

\* the Stop Camera button was used with the only stream held and two photos
\* selected
C14_Witness ==
    /\ mounted /\ ~isCameraActive /\ stream = None /\ cameraError = None
    /\ streamCount = 1 /\ liveStreams = {}
    /\ Len(selectedImages) = 2
    /\ timers = 0

\* C15 as stated: once the user has stopped the camera or submitted the
\* photos, no stream the component acquired has live tracks, however the
\* getUserMedia completions interleave with the clicks: none right after
\* stopCamera or handleUpload, and none once the photos are submitted.
C15_Original ==
    /\ [](handedOff # <<>> => liveStreams = {})
    /\ [][(stopCamera \/ handleUpload) => liveStreams' = {}]_vars

\* the invocations of startCamera that await getUserMedia
InFlight == {i \in 1..Len(invocations) : invocations[i].phase \in {"back", "any"}}

\* C16 as stated: startCamera cannot be triggered while an invocation is
\* acquiring the camera or the camera is active, so at most one
\* getUserMedia acquisition is in flight and at most one stream is held.
C16_Original ==
    /\ Cardinality(InFlight) <= 1
    /\ Cardinality(liveStreams) <= 1

\* invocation i of startCamera ends in this step, in the given phase
Ends(i, phase) ==
    /\ i \in InFlight
    /\ invocations'[i].phase = phase

\* C17 as stated, for a component that is on the page: every invocation of
\* startCamera asks for the environment camera first and for any camera
\* only after that request failed; when both requests have failed a
\* camera error is shown with isCameraActive false and no stream held;
\* when a request succeeds its stream is stored and isCameraActive is true.
C17_Original ==
    [][mounted =>
        \A i \in 1..Len(invocations) :
            /\ invocations[i].asked[1] = "environment"
            /\ invocations'[i].asked \in {<<"environment">>, <<"environment", "any">>}
            /\ Len(invocations'[i].asked) > Len(invocations[i].asked) =>
                    invocations[i].phase = "back" /\ invocations'[i].phase = "any"
            /\ Ends(i, "failed") =>
                    /\ IsSome(cameraError')
                    /\ ~isCameraActive'
                    /\ stream' = None
            /\ Ends(i, "stored") =>
                    /\ stream' = Some(streamCount')
                    /\ isCameraActive'
       ]_vars

\* the call of onImagesUploaded made in this step
ThisHandOff == handedOff'[Len(handedOff')]

BilalPost == req.endpoint = "bilal" /\ req.method = "POST"

\* C19 as stated: a request to the alternative handler whose images array
\* has 0 or more than 6 entries is answered with HTTP 400 and never
\* reaches the external model.
C19_Original ==
    (BilalPost /\ HasImagesArray /\ (ImageCount = 0 \/ ImageCount > 6)) =>
        /\ ~Awaiting /\ modelCalls = 0
        /\ Responded => resp.status = 400

\* ------------------------------------- the outer catch of the batch route
\* response.text() threw an Error, which the outer catch of the batch
\* handler received
C20_Reached ==
    Responded /\ BatchPost /\ outcome.kind = "textThrow" /\ outcome.err.kind = "Error"

C20_Message == outcome.err.message

\* the first of the five rules that the message matches
C20_Rule ==
    LET has(needle) == Includes(C20_Message, needle)
    IN  IF has(<<"API", " ", "key">>) \/ has(<<"authentication">>) THEN 1
        ELSE IF has(<<"quota">>) \/ has(<<"billing">>) THEN 2
        ELSE IF has(<<"too", " ", "large">>) \/ has(<<"413">>) THEN 3
        ELSE IF has(<<"JSON">>) THEN 4
        ELSE 5

C20_Text ==
    CASE C20_Rule = 1 -> <<"Google API key not configured or invalid">>
      [] C20_Rule = 2 -> <<"API quota exceeded or billing issue">>
      [] C20_Rule = 3 -> <<"Request payload too large. Gemini 1.5 Pro supports up to 100MB of images.">>
      [] C20_Rule = 4 -> <<"Failed to parse AI response. Please try again.">>
      [] C20_Rule = 5 -> <<"Error: ">> \o C20_Message

\* C20: for an exception with message m that reaches the outer catch of
\* the batch POST handler, the response is that of the first matching rule
\* in the order API key/authentication, quota/billing, too large/413,
\* JSON, otherwise "Error: " + m; the status is 413 under the third rule
\* and 500 otherwise; the body has isMockResult true and processingTimeMs.
C20_FirstMatch ==
    C20_Reached =>
        /\ resp.body.error = Some(C20_Text)
        /\ resp.status = (IF C20_Rule = 3 THEN 413 ELSE 500)
        /\ resp.body.isMockResult = Some(TRUE)
        /\ resp.body.processingTimeMs

\* a message that the first and the second rule match gets the first
C20_Witness ==
    /\ C20_Reached
    /\ C20_Message = <<"quota", " ", "for", " ", "API", " ", "key">>
    /\ resp.status = 500
    /\ resp.body.error = Some(<<"Google API key not configured or invalid">>)

\* ----------------------------- the model call of the batch route throws
\* generateContent threw in the batch POST handler, which has answered
C21_Reached == Responded /\ BatchPost /\ outcome.kind = "throw"

C21_Message == ExtractedMessage(outcome.err)

C21_TooLarge ==
    LET has(needle) == Includes(C21_Message, needle)
    IN  \/ has(<<"Request", " ", "En">>)
        \/ has(<<"413">>)
        \/ has(<<"too", " ", "large">>)
        \/ has(<<"en", "tity", " ", "too", " ", "large">>)
        \/ has(<<"payload">>)
        \/ \E i \in 1..(Len(C21_Message) - 2) :
              /\ C21_Message[i] \in {"request", "Request"}
              /\ C21_Message[i + 1] = " "
              /\ C21_Message[i + 2] \in {"size", "Size"}

C21_First300 ==
    [i \in 1..(IF Len(C21_Message) < 300 THEN Len(C21_Message) ELSE 300) |-> C21_Message[i]]

\* C21: when generateContent throws in the batch handler the failure is
\* answered directly: 413 "Images too large for batch processing" if the
\* extracted message contains "Request En", "413", "too large", "entity
\* too large", "payload" or, in any case, "request size"; otherwise 500
\* "Gemini API error occurred" with details the first 300 characters of
\* the message; both bodies carry isMockResult true.
C21_ModelFailure ==
    C21_Reached =>
        /\ modelCalls = 1
        /\ resp.body.isMockResult = Some(TRUE)
        /\ IF C21_TooLarge
           THEN /\ resp.status = 413
                /\ resp.body.error = Some(<<"Images too large for batch processing">>)
           ELSE /\ resp.status = 500
                /\ resp.body.error = Some(<<"Gemini API error occurred">>)
                /\ resp.body.details = Some(C21_First300)

\* a message of more than 300 characters is cut in the details
C21_Witness ==
    /\ C21_Reached /\ ~C21_TooLarge
    /\ Len(C21_Message) > 300
    /\ resp.status = 500
    /\ Len(resp.body.details[1]) = 300

\* ------------------------------- the model's text of the batch route
\* the batch POST handler has answered a request whose model text is not
\* itself valid JSON
C22_Reached ==
    Responded /\ BatchPost /\ outcome.kind = "text" /\ ~JSONParse(outcome.text).ok

\* the span from the first "{" to the last "}" of the text, if there is one
C22_Span ==
    LET t == outcome.text
        opens == {i \in 1..Len(t) : t[i] = "{"}
        closes == {j \in 1..Len(t) : t[j] = "}"}
        first == CHOOSE i \in opens : \A k \in opens : i <= k
        last == CHOOSE j \in closes : \A k \in closes : j >= k
    IN  IF opens # {} /\ closes # {} /\ first < last
        THEN Some(SubSeq(t, first, last)) ELSE None

C23_Called == BatchPost /\ modelCalls = 1

C23_Images == req.body.images.items

\* s without its data-URL prefix: the text after the first comma
C23_PrefixRemoved(s) ==
    LET commas == {i \in 1..Len(s) : s[i] = ","}
        first == CHOOSE i \in commas : \A k \in commas : i <= k
    IN  IF Len(s) > 0 /\ s[1] = "data:" /\ commas # {}
        THEN SubSeq(s, first + 1, Len(s)) ELSE s

\* what the handler sends for s: s itself unless it starts with "data:",
\* else the text between the first and the second comma (to the end
\* without a second comma), and nothing without a comma
C23_BetweenCommas(s) ==
    LET commas == {i \in 1..Len(s) : s[i] = ","}
        first == CHOOSE i \in commas : \A k \in commas : i <= k
        later == {i \in commas : i > first}
        second == CHOOSE i \in later : \A k \in later : i <= k
    IN  IF Len(s) = 0 \/ s[1] # "data:" THEN Some(s)
        ELSE IF commas = {} THEN None
        ELSE IF later = {} THEN Some(SubSeq(s, first + 1, Len(s)))
        ELSE Some(SubSeq(s, first + 1, second - 1))

C23_Reports ==
    (Responded /\ resp.status = 200) =>
        resp.body.imagesAnalyzed = Some(Len(C23_Images))

\* C23 as stated: the single model call of an accepted batch request with
\* n images gets the prompt, then n inline image parts in the order of
\* the images array, each the request string with any leading data-URL
\* prefix (the text up to the first comma) removed; a success response
\* reports imagesAnalyzed = n.
C23_Original ==
    C23_Called =>
        /\ Len(sent) = Len(C23_Images) + 1
        /\ sent[1].part = "prompt"
        /\ \A i \in 1..Len(C23_Images) :
              /\ sent[i + 1].part = "inlineData"
              /\ sent[i + 1].data = Some(C23_PrefixRemoved(C23_Images[i].s))
        /\ C23_Reports

\* C23 amended: as stated, except that for a string starting with "data:"
\* the part is the text between its first and its second comma (to the
\* end when there is no second comma) and is undefined when the string
\* has no comma.
C23_Parts ==
    C23_Called =>
        /\ Len(sent) = Len(C23_Images) + 1
        /\ sent[1].part = "prompt"
        /\ \A i \in 1..Len(C23_Images) :
              /\ sent[i + 1].part = "inlineData"
              /\ sent[i + 1].data = C23_BetweenCommas(C23_Images[i].s)
        /\ C23_Reports

\* six images, data URLs and plain base64 alternating, answered with 200
C23_Witness ==
    /\ C23_Called /\ Responded /\ resp.status = 200
    /\ Len(C23_Images) = 6
    /\ C23_Images[1].s[1] = "data:" /\ C23_Images[2].s[1] # "data:"
    /\ sent[2].data = Some(<<Payload(1)>>) /\ sent[3].data = Some(<<Payload(2)>>)
    /\ resp.body.imagesAnalyzed = Some(6)

\* ------------------------------------------------ capturePhoto's effect
\* selectedImages after the step is selectedImages before it with one
\* image/jpeg file appended
C24_AppendsOneJpeg ==
    /\ Len(selectedImages') = Len(selectedImages) + 1
    /\ \A k \in 1..Len(selectedImages) : selectedImages'[k] = selectedImages[k]
    /\ selectedImages'[Len(selectedImages')].type = <<"image/", "jpeg">>

C24_Step ==
    /\ capturePhoto(TRUE) =>
          selectedImages' = selectedImages /\ cameraError' = cameraError
    /\ (mounted /\ BlobReady(TRUE)) =>
          C24_AppendsOneJpeg /\ cameraError' = cameraError
    /\ (capturePhoto(FALSE) \/ (mounted /\ BlobReady(FALSE))) =>
          selectedImages' = selectedImages /\ IsSome(cameraError')

\* C24: capturePhoto appends exactly one image/jpeg File to the end of
\* selectedImages, the earlier entries and their order unchanged, when the
\* video has non-zero dimensions and the canvas yields a blob; with zero
\* dimensions or a null blob it appends nothing and sets cameraError.
C24_Capture == [][C24_Step]_vars

\* a captured photo behind a file picked from the gallery
C24_Witness ==
    /\ mounted /\ Len(selectedImages) = 2
    /\ selectedImages[1].name = "a.jpg"
    /\ selectedImages[2] = CameraPhoto

\* --------------------------------- CORS headers on every batch response
\* the path that produced a response of the batch endpoint
C25_Path ==
    IF req.method = "OPTIONS" THEN "options"
    ELSE IF resp.status = 200 THEN "success"
    ELSE IF modelCalls = 0 THEN "before the call"
    ELSE IF outcome.kind = "throw" THEN "call failed"
    ELSE "outer catch"

\* C25: every response of the batch endpoint, on every path (OPTIONS, 200,
\* 400, 413, 500 from the key check, the failed model call, the outer
\* catch), carries the four CORS headers that getCorsHeaders computes for
\* the request.
C25_CorsEverywhere ==
    (Responded /\ req.endpoint = "batch") =>
        /\ resp.fullCors
        /\ resp.acao = Some(getCorsHeaders(env, req))

\* the outer catch answers a listed origin with that origin
C25_Witness ==
    /\ Responded /\ BatchPost /\ C25_Path = "outer catch"
    /\ IsSome(env.ALLOWED_ORIGIN) /\ IsSome(req.origin)
    /\ resp.fullCors /\ resp.acao = req.origin

\* --------------------------------------------- the states of the page
C26_Analyzing ==
    assessmentState = "analyzing" =>
        /\ Len(uploadedImages) > 0
        /\ validateImages(uploadedImages).isValid

C26_Results ==
    /\ (assessmentState' = "results" /\ assessmentState # "results") =>
            assessmentState = "analyzing"
    /\ assessmentState' = "results" => IsSome(assessmentResult')

\* C26 as stated: in the main page assessmentState is "analyzing" only
\* while uploadedImages holds a non-empty list that passed validateImages,
\* for every sequence of handleImagesUploaded, handleStartAssessment and
\* handleStartOver; and whenever assessmentState is "results" the state
\* was reached from "analyzing" and assessmentResult is non-null.
C26_Original == [](C26_Analyzing) /\ [][C26_Results]_vars

\* ------------------------------------------- the list of selected images
C27_AllImages ==
    \A k \in 1..Len(selectedImages) :
        /\ Len(selectedImages[k].type) > 0
        /\ selectedImages[k].type[1] = "image/"

\* after is before without its entry number i (counted from 1)
C27_Without(before, after, i) ==
    /\ i \in 1..Len(before)
    /\ Len(after) = Len(before) - 1
    /\ \A k \in 1..Len(after) : after[k] = IF k < i THEN before[k] ELSE before[k + 1]

\* a step appends at the end, removes one entry, or leaves the list alone;
\* removeImage(i) removes the entry at index i
C27_Step ==
    /\ \/ /\ Len(selectedImages') >= Len(selectedImages)
          /\ \A k \in 1..Len(selectedImages) : selectedImages'[k] = selectedImages[k]
       \/ \E i \in 1..Len(selectedImages) : C27_Without(selectedImages, selectedImages', i)
    /\ \A index \in 0..(MaxSelected - 1) :
          removeImage(index) => C27_Without(selectedImages, selectedImages', index + 1)

\* C27: in PhotoUpload, after any sequence of gallery selections, camera
\* captures and removals, every file in selectedImages has a MIME type
\* starting with "image/", files keep their relative insertion order, and
\* removeImage(i) removes exactly the entry at index i.
C27_SelectedImages == [](C27_AllImages) /\ [][C27_Step]_vars

\* a file picked from the gallery behind a captured photo
C27_Witness ==
    /\ mounted
    /\ selectedImages = <<CameraPhoto, Photo("a.jpg", <<"image/", "jpeg">>)>>
====
